---------------------------- MODULE Spec2Model ----------------------------
(***************************************************************************)
(* Verification model of sistema-contagem-veiculos (juanpfsti/sysMonit):   *)
(* the RTSP capture, the counting pipeline, the in-memory counters with    *)
(* their SQLite store, and the queue dwell-time manager.                   *)
(*                                                                         *)
(* The module holds several specifications over one list of variables.     *)
(* Each specification drives one component and keeps the variables of the  *)
(* other components at their initial values:                               *)
(*   SpecLine     crossed_horizontal_line as a pure function               *)
(*   SpecCounter  VehicleCounter over CounterDatabase (counter.py,         *)
(*                database.py), driven call by call                        *)
(*   SpecPipeline the counting part of VideoThread.process_video, frame by *)
(*                frame, with monitoring active and queue mode inactive    *)
(*   SpecQueue    the queue part of VideoThread.process_video over         *)
(*                QueueManager and QueueDatabase, frame by frame, with     *)
(*                queue mode active and monitoring inactive                *)
(*   SpecCapture  the threads of one VideoThread (run, the reader of       *)
(*                RTSPBufferedCapture and its read sub-threads) and the    *)
(*                caller of stop(), in explicit time                       *)
(*   SpecZone     the zone branch of process_video for one track, with the *)
(*                time between two frames recorded                         *)
(*   SpecMinWait  SpecQueue over the values of 'queue_config' that         *)
(*                config.json can hold                                     *)
(*   SpecRoi      apply_roi_crop as a pure function                        *)
(*   SpecReconnect  the connection loop of VideoThread.run, in slices of   *)
(*                100 ms                                                   *)
(*   SpecStore    VehicleCounter over the SQLite connection of             *)
(*                CounterDatabase, statement by statement, with stop()     *)
(*   SpecMigrate  CounterDatabase opened, used and closed over a file that *)
(*                holds the legacy table 'historico'                       *)
(*   SpecBuffer   frame_queue of RTSPBufferedCapture between its reader    *)
(*                thread and read(), one queue operation at a time         *)
(*   SpecCategorias  SpecZone over the values of 'categorias' that         *)
(*                config.json can hold                                     *)
(*   SpecRead     read() of RTSPBufferedCapture against the puts of        *)
(*                _read_loop, in seconds                                   *)
(*   SpecLocks    the pipeline thread and the UI thread on the locks of    *)
(*                CounterDatabase and QueueDatabase                        *)
(*   SpecDirection  the line branch of process_video for one track, over   *)
(*                x_mid_ratio, invert_direction and direction_mode         *)
(*   SpecDebounce SpecQueue with the frames in a row that reported each    *)
(*                track inside or outside the polygon counted              *)
(*   SpecSuppress the opening threads and read sub-threads of two         *)
(*                captures on the lock and fd 2 of SuppressFFmpegOutput    *)
(*   SpecPersist  adicionar over the connection frame after frame, with    *)
(*                statements that raise; SpecPersistLive adds that frames  *)
(*                keep being processed                                     *)
(*   SpecShare    counter.contadores and the track flags between the       *)
(*                pipeline thread and the reset handler of the UI thread   *)
(*                                                                         *)
(* Category names are written without diacritics ("Caminhoes", "Onibus").  *)
(***************************************************************************)
EXTENDS Integers, Sequences, FiniteSets, TLC

VARIABLES
    \* ---- SpecLine: one evaluation of crossed_horizontal_line
    ln_in,      \* the arguments (prev_xy, curr_xy, x1, x2, y, band)
    ln_out,     \* the returned triple, once evaluated
    \* ---- SpecCounter: one VehicleCounter and the CounterDatabase it writes
    counter,    \* VehicleCounter: contadores, historico, rtsp_url, _last_save_time
    database,   \* CounterDatabase: the tables contadores, cameras, historico_v2
    ui_counters,\* the dict handed to the UI when the last step was the emission
    saved,      \* per camera, the snapshot last handed to save_counters
    \* ---- SpecPipeline: the per-track count state of one VideoThread
    config,             \* the Config keys the counting reads
    track_counted,      \* self.track_counted
    track_last_center_xy, \* self.track_last_center_xy
    track_last_zone,    \* self.track_last_zone
    track_last_event_time, \* self.track_last_event_time, as the time since it
    track_last_seen,    \* self.track_last_seen, as the time since it
    count_events,       \* calls of counter.adicionar per (track id, sentido)
    life_events,        \* the same, since track_counted[id] was last created
    \* ---- SpecQueue: the QueueManager of one VideoThread and its QueueDatabase
    q_now,              \* time.time() at the last processed frame
    q_reported,         \* the track ids the tracker reported in that frame
    waiting_vehicles,   \* QueueManager.waiting_vehicles
    completed_waits,    \* QueueManager.completed_waits
    session_history,    \* QueueManager.session_history
    current_queue_size, \* QueueManager.current_queue_size (waiting_count)
    max_wait_current,   \* QueueManager.max_wait_current
    queue_history,      \* the rows of the table queue_history of QueueDatabase
    \* ---- SpecCapture: one VideoThread, its capture and the caller of stop()
    running,            \* VideoThread.running
    stop_requested,     \* VideoThread._stop_requested (an Event)
    self_cap,           \* whether VideoThread.cap is not None
    pl_pc,              \* where the pipeline thread is in run()
    pl_timer,           \* the time left of the wait it is in
    n_opens,            \* capture instances opened so far
    n_events,           \* events written to the stores so far
    cap_failed,         \* the failure read() last reported for this capture
    cap_running,        \* RTSPBufferedCapture.running
    rd_pc,              \* where the reader thread is in _read_loop
    rd_timer,           \* the time left of its join on the sub-thread
    active_read_thread, \* whether _active_read_thread is the latest sub-thread
    cur_sub,            \* the latest sub-thread: in base_capture.read() or its result
    orphan_reads,       \* whether an earlier sub-thread is still in base_capture.read()
    frame_queue,        \* the number of frames in frame_queue
    last_good_frame,    \* whether last_good_frame is not None
    last_new_frame_age, \* the time since last_new_frame_time
    first_frame_ready,  \* the Event first_frame_ready
    base_released,      \* whether base_capture.release() was called
    released_in_flight, \* whether it was called with a base_capture.read() in flight
    ui_pc,              \* where the caller of stop() is
    ui_timer,           \* the time left of the wait it is in
    stop_elapsed,       \* the time since stop() was called
    terminated,         \* whether QThread.terminate() was called
    \* ---- SpecZone: the zone branch of process_video for one track
    frame_dt,           \* the time between the last two processed frames
    \* ---- SpecMinWait: the queue settings read from config.json
    queue_config,       \* the value of the key 'queue_config' of Config.config
    \* ---- SpecRoi: one evaluation of apply_roi_crop
    roi_in,             \* the frame shape and the configuration read
    roi_out,            \* the returned slice bounds, once evaluated
    \* ---- SpecReconnect: the loop of VideoThread.run
    rc_running,         \* VideoThread.running
    rc_pc,              \* where run is
    tentativa,          \* the local tentativa of run
    rc_status,          \* the last status emitted by update_status
    rc_wait,            \* which interruptible sleep run is in
    rc_slices,          \* the iterations left of its for loop
    rc_waited,          \* the 100 ms sleeps finished in this wait
    rc_late,            \* those of them finished after stop() was called
    \* ---- SpecStore: VehicleCounter over the connection of CounterDatabase
    tx_committed,       \* the committed content of contador.db
    tx_working,         \* the content as the connection self.conn sees it
    in_transaction,     \* whether self.conn has an open write transaction
    mem_contadores,     \* VehicleCounter.contadores
    st_thread,          \* the pipeline thread: running, ended, killed
    st_stop,            \* stop(): not called, called, returned
    snapshot_committed, \* whether a whole set of counter rows was ever committed
    cleanup_failed,     \* whether a statement of the save in cleanup() raised
    pending_at_stop,    \* whether cleanup() found unsaved counters and open rows
    \* ---- SpecMigrate: CounterDatabase opened and closed over one file
    conn,               \* self.conn: "closed" or "open"
    historico,          \* the rows of the legacy table 'historico' of the file
    migrations,         \* the opens that copied legacy rows so far
    \* ---- SpecBuffer: frame_queue between _read_loop and read()
    fb_queue,           \* frame_queue: the frames buffered, oldest first
    fb_pc,              \* where _read_loop is with the frame it decoded
    fb_frame,           \* the frame _read_loop holds
    fb_decoded,         \* the frames decoded so far
    fb_last,            \* the frame read() last took from the queue
    fb_dropped,         \* the frames _read_loop removed from the queue
    fb_lost,            \* the decoded frames that put_nowait refused
    \* ---- SpecRead: read() of the capture against the puts of _read_loop
    last_put_age,       \* the time since _read_loop last put a frame in frame_queue
    \* ---- SpecLocks: the pipeline thread and the UI thread on the two stores
    monitoring_active,  \* VideoThread.monitoring_active
    queue_active,       \* VideoThread.queue_active
    db_lock,            \* per store, the thread that holds its _lock, or "free"
    lk_todo,            \* per thread, the store operations it has yet to finish
    lk_in,              \* the threads inside the operation at the head of their list
    \* ---- SpecDirection: the line branch of process_video for one track
    dir_log,            \* what became of the line crossings of track 1, in order
    \* ---- SpecDebounce: QueueManager.update with the frames of each track counted
    run_inside,         \* per track, the latest calls of update in a row that had it inside
    run_outside,        \* per track, the latest calls of update in a row that had it outside
    ever_finished,      \* the track ids that left IN_QUEUE so far
    \* ---- SpecSuppress: the threads of two captures on SuppressFFmpegOutput
    sup_lock,           \* the thread that holds _ffmpeg_suppress_lock, or NoThread
    fd2,                \* what file descriptor 2 refers to: "stderr" or "null"
    th_pc,              \* per thread, where it is in SuppressFFmpegOutput
    th_save_fd,         \* per thread, what its save_fd refers to, "none" without one
    th_suppressed,      \* per thread, its local 'suppressed'
    th_ret,             \* per thread, how its native call ended
    sr_pc,              \* per capture, where its owner is: opening, _read_loop, join
    sr_cur,             \* per capture, the sub-thread _safe_base_read is joining
    last_exit,          \* how the block was last left, and with which 'suppressed'
    \* ---- SpecPersist: adicionar over the connection, frame after frame
    ps_since_save,      \* the time since VehicleCounter._last_save_time
    ps_emitted,         \* the events appended to VehicleCounter.historico, in order
    ps_save,            \* how the last call of save_counters ended
    ps_recovered,       \* whether a save_counters succeeded after one that failed
    ps_lost,            \* the events whose INSERT into historico_v2 raised
    ps_fps_counter,     \* fps_counter of process_video, modulo 2
    \* ---- SpecShare: counter.contadores between the pipeline and the UI thread
    sh_heap,            \* the dicts ever bound to counter.contadores, by identity
    sh_ref,             \* the dict counter.contadores is bound to
    sh_ui_ref,          \* the dict last emitted with update_counters, if any
    sh_emitted,         \* the content that dict had when it was emitted
    sh_pc,              \* where the pipeline thread is in adicionar
    sh_counted,         \* track_counted[1]['ida']: "absent" (no key), "no" or "yes"
    sh_writers          \* the threads that wrote the counters or the track maps

lineVars == <<ln_in, ln_out>>
counterVars == <<counter, database, ui_counters, saved>>
trackVars == <<config, track_counted, track_last_center_xy, track_last_zone,
               track_last_event_time, track_last_seen, count_events, life_events>>
queueVars == <<q_now, q_reported, waiting_vehicles, completed_waits,
               session_history, current_queue_size, max_wait_current,
               queue_history>>
threadVars == <<running, stop_requested, self_cap, pl_pc, pl_timer, n_opens,
                n_events, cap_failed>>
captureVars == <<cap_running, rd_pc, rd_timer, active_read_thread, cur_sub,
                 orphan_reads, frame_queue, last_good_frame, last_new_frame_age,
                 first_frame_ready, base_released, released_in_flight>>
stopVars == <<ui_pc, ui_timer, stop_elapsed, terminated>>
\* What a step of each specification leaves alone.
zoneVars == <<frame_dt>>
qcfgVars == <<queue_config>>
roiVars == <<roi_in, roi_out>>
reconnectVars == <<rc_running, rc_pc, tentativa, rc_status, rc_wait, rc_slices,
                   rc_waited, rc_late>>
storeVars == <<tx_committed, tx_working, in_transaction, mem_contadores, st_thread,
               st_stop, snapshot_committed, cleanup_failed, pending_at_stop>>
migrateVars == <<conn, historico, migrations>>
bufferVars == <<fb_queue, fb_pc, fb_frame, fb_decoded, fb_last, fb_dropped, fb_lost>>
readVars == <<last_put_age>>
\* The variables of the specifications added after the first five, in the
\* order they were added.
secondVars == <<zoneVars, qcfgVars, roiVars, reconnectVars, storeVars,
                migrateVars, bufferVars>>
lockVars == <<monitoring_active, queue_active, db_lock, lk_todo, lk_in>>
dirVars == <<dir_log>>
debounceVars == <<run_inside, run_outside, ever_finished>>
suppressVars == <<sup_lock, fd2, th_pc, th_save_fd, th_suppressed, th_ret, sr_pc, sr_cur,
                  last_exit>>
persistVars == <<ps_since_save, ps_emitted, ps_save, ps_recovered, ps_lost,
                 ps_fps_counter>>
shareVars == <<sh_heap, sh_ref, sh_ui_ref, sh_emitted, sh_pc, sh_counted, sh_writers>>
fourthVars == <<suppressVars, persistVars, shareVars>>
laterVars == <<readVars, lockVars, dirVars, debounceVars, fourthVars>>
extraVars == <<secondVars, laterVars>>
notLine == <<counterVars, trackVars, queueVars, threadVars, captureVars, stopVars,
             extraVars>>
notCounter == <<lineVars, trackVars, queueVars, threadVars, captureVars, stopVars,
                extraVars>>
notPipeline == <<lineVars, queueVars, threadVars, captureVars, stopVars, extraVars>>
notQueue == <<lineVars, counterVars, trackVars, threadVars, captureVars, stopVars,
              extraVars>>
notCapture == <<lineVars, counterVars, trackVars, queueVars, extraVars>>
firstVars == <<lineVars, counterVars, trackVars, queueVars, threadVars, captureVars,
               stopVars>>
notZone == <<laterVars, lineVars, queueVars, threadVars, captureVars, stopVars, qcfgVars,
             roiVars, reconnectVars, storeVars, migrateVars, bufferVars>>
notRoi == <<laterVars, firstVars, zoneVars, qcfgVars, reconnectVars, storeVars, migrateVars,
            bufferVars>>
notReconnect == <<laterVars, firstVars, zoneVars, qcfgVars, roiVars, storeVars, migrateVars,
                  bufferVars>>
notStore == <<laterVars, firstVars, zoneVars, qcfgVars, roiVars, reconnectVars, migrateVars,
              bufferVars>>
notMigrate == <<laterVars, firstVars, zoneVars, qcfgVars, roiVars, reconnectVars,
                mem_contadores, st_thread, st_stop, snapshot_committed,
                cleanup_failed, pending_at_stop, bufferVars>>
notBuffer == <<laterVars, firstVars, zoneVars, qcfgVars, roiVars, reconnectVars, storeVars,
               migrateVars>>
vars == <<lineVars, counterVars, trackVars, queueVars, threadVars, captureVars,
          stopVars, extraVars>>

(***************************************************************************)
(* Direction names (counter.py, detector.py).                              *)
(***************************************************************************)
Dirs == {"ida", "volta"}

(***************************************************************************)
(* counter.py: the keys of VehicleCounter.contadores and categoria_map.    *)
(***************************************************************************)
Cats == {"Carros", "Motos", "Caminhoes", "Onibus"}
AllCats == Cats \cup {"total"}

\* VehicleCounter.reset: every counter 0.
ZeroCounters == [c \in AllCats |-> [d \in Dirs |-> 0]]

\* The camera URLs tried: no URL (the default rtsp_url='') and one camera.
Urls == {"", "cam1"}

\* No snapshot saved for a camera yet.
NoSnap == [c \in AllCats |-> [d \in Dirs |-> -1]]

-----------------------------------------------------------------------------
(***************************************************************************)
(* The values each component holds while its specification is not the one  *)
(* being run.                                                              *)
(***************************************************************************)

\* The value returned for "no crossing": (False, None, None).
NoCross == [crossed |-> FALSE, x_num |-> 0, x_den |-> 1, dir |-> "none"]

NotEvaluated == [done |-> FALSE, res |-> NoCross]

LineIdle ==
    /\ ln_in = [px |-> 0, py |-> 0, cx |-> 0, cy |-> 0,
                x1 |-> 0, x2 |-> 0, y |-> 0, band |-> 0]
    /\ ln_out = NotEvaluated

\* CounterDatabase.init_database on a new file: the tables exist and are empty.
EmptyDatabase == [contadores |-> {}, cameras |-> {}, historico_v2 |-> <<>>]

\* VehicleCounter.__init__ with no rtsp_url: reset(), empty historico.
NewCounter(url, contadores) ==
    [contadores |-> contadores, historico |-> <<>>, rtsp_url |-> url,
     since_last_save |-> 0]

CounterIdle ==
    /\ counter = NewCounter("", ZeroCounters)
    /\ database = EmptyDatabase
    /\ ui_counters = ZeroCounters
    /\ saved = [u \in Urls |-> NoSnap]

\* The track ids the tracker reports.
Tracks == {1, 2}

\* Config.default_config['categorias'].
Categorias == {"car", "motorcycle", "moto", "truck", "bus"}

\* Config.default_config: the keys read by the counting.
DefaultConfig ==
    [counting_mode |-> "line", invert_direction |-> FALSE,
     direction_mode |-> "both", x_mid_set |-> FALSE, categorias |-> Categorias]

\* A key missing from a per-track dict.
NoFlags == [present |-> FALSE, ida |-> FALSE, volta |-> FALSE]
NoCenter == [present |-> FALSE, x |-> 0, y |-> 0]
Absent == -1

\* VideoThread.__init__: the tracking state maps are empty.
NoTrackState ==
    [track_counted |-> [t \in Tracks |-> NoFlags],
     track_last_center_xy |-> [t \in Tracks |-> NoCenter],
     track_last_zone |-> [t \in Tracks |-> "absent"],
     track_last_event_time |-> [t \in Tracks |-> Absent],
     track_last_seen |-> [t \in Tracks |-> Absent]]

NoEvents == [t \in Tracks |-> [d \in Dirs |-> 0]]

TrackStateIs(ts) ==
    /\ track_counted = ts.track_counted
    /\ track_last_center_xy = ts.track_last_center_xy
    /\ track_last_zone = ts.track_last_zone
    /\ track_last_event_time = ts.track_last_event_time
    /\ track_last_seen = ts.track_last_seen

\* queue_manager.py: a track id without an entry in waiting_vehicles.
NoVehicle ==
    [present |-> FALSE, state |-> "IDLE", entry_time |-> 0, current_wait |-> 0,
     frames_inside |-> 0, frames_outside |-> 0]

\* QueueManager.__init__ over an empty queue.db.
NewQueue ==
    [waiting_vehicles |-> [t \in Tracks |-> NoVehicle],
     completed_waits |-> <<>>,
     session_history |-> <<>>,
     current_queue_size |-> 0,
     max_wait_current |-> 0,
     queue_history |-> <<>>]

QueueIs(q) ==
    /\ waiting_vehicles = q.waiting_vehicles
    /\ completed_waits = q.completed_waits
    /\ session_history = q.session_history
    /\ current_queue_size = q.current_queue_size
    /\ max_wait_current = q.max_wait_current
    /\ queue_history = q.queue_history

QueueIdle ==
    /\ q_now = 0
    /\ q_reported = {}
    /\ QueueIs(NewQueue)

\* detector.py: RTSPBufferedCapture before any instance is constructed.
NoCapture ==
    /\ cap_running = FALSE
    /\ rd_pc = "none"
    /\ rd_timer = 0
    /\ active_read_thread = FALSE
    /\ cur_sub = "none"
    /\ orphan_reads = FALSE
    /\ frame_queue = 0
    /\ last_good_frame = FALSE
    /\ last_new_frame_age = Absent
    /\ first_frame_ready = FALSE
    /\ base_released = FALSE
    /\ released_in_flight = FALSE

\* detector.py: VideoThread.__init__, before start() and stop().
CaptureIdle ==
    /\ running = FALSE
    /\ stop_requested = FALSE
    /\ self_cap = FALSE
    /\ pl_pc = "not_started"
    /\ pl_timer = 0
    /\ n_opens = 0
    /\ n_events = 0
    /\ cap_failed = "none"
    /\ NoCapture
    /\ ui_pc = "idle"
    /\ ui_timer = 0
    /\ stop_elapsed = 0
    /\ terminated = FALSE

\* No frame processed yet.
ZoneIdle == frame_dt = 0

\* config.py: a config.json without the key 'queue_config'.
NoQueueConfig == [present |-> FALSE, has_min |-> FALSE, min_wait_time |-> 0]

QueueConfigIdle == queue_config = NoQueueConfig

\* apply_roi_crop not yet called.
NoCrop == [done |-> FALSE, y_start |-> 0, y_end |-> 0, x_start |-> 0, x_end |-> 0]

RoiIdle ==
    /\ roi_in = [use_roi |-> FALSE, h |-> 0, w |-> 0, top_percent |-> 0,
                 bottom_percent |-> 0, left_percent |-> 0, right_percent |-> 0]
    /\ roi_out = NoCrop

\* VideoThread before start(): run has not begun.
ReconnectIdle ==
    /\ rc_running = FALSE
    /\ rc_pc = "none"
    /\ tentativa = 0
    /\ rc_status = "none"
    /\ rc_wait = "none"
    /\ rc_slices = 0
    /\ rc_waited = 0
    /\ rc_late = 0

\* No CounterDatabase and no VehicleCounter constructed.
StoreIdle ==
    /\ tx_committed = EmptyDatabase
    /\ tx_working = EmptyDatabase
    /\ in_transaction = FALSE
    /\ mem_contadores = ZeroCounters
    /\ st_thread = "none"
    /\ st_stop = "none"
    /\ snapshot_committed = FALSE
    /\ cleanup_failed = FALSE
    /\ pending_at_stop = FALSE

\* No file opened, and no legacy table in it.
MigrateIdle ==
    /\ conn = "closed"
    /\ historico = <<>>
    /\ migrations = 0

\* RTSPBufferedCapture.__init__: the queue is empty, nothing decoded.
BufferIdle ==
    /\ fb_queue = <<>>
    /\ fb_pc = "decode"
    /\ fb_frame = 0
    /\ fb_decoded = 0
    /\ fb_last = 0
    /\ fb_dropped = {}
    /\ fb_lost = {}

\* _read_loop has put no frame yet.
ReadIdle == last_put_age = Absent

\* The initial values of the variables of the specifications added after the
\* first five.
SecondIdle ==
    /\ ZoneIdle /\ QueueConfigIdle /\ RoiIdle /\ ReconnectIdle /\ StoreIdle
    /\ MigrateIdle /\ BufferIdle

\* VideoThread.__init__, CounterDatabase.__init__, QueueDatabase.__init__:
\* both modes off, both locks free, no operation called.
LocksIdle ==
    /\ monitoring_active = FALSE
    /\ queue_active = FALSE
    /\ db_lock = [s \in {"counter", "queue"} |-> "free"]
    /\ lk_todo = [t \in {"pl", "ui"} |-> <<>>]
    /\ lk_in = {}

\* No line crossing yet.
DirectionIdle == dir_log = <<>>

\* No call of update yet.
DebounceIdle ==
    /\ run_inside = [t \in Tracks |-> 0]
    /\ run_outside = [t \in Tracks |-> 0]
    /\ ever_finished = {}

\* No thread has entered SuppressFFmpegOutput, no capture is constructed.
SuppressIdle ==
    /\ sup_lock = <<0, 0>>
    /\ fd2 = "stderr"
    /\ th_pc = <<>>
    /\ th_save_fd = <<>>
    /\ th_suppressed = <<>>
    /\ th_ret = <<>>
    /\ sr_pc = <<>>
    /\ sr_cur = <<>>
    /\ last_exit = [how |-> "none", suppressed |-> FALSE]

\* No call of adicionar yet.
PersistIdle ==
    /\ ps_since_save = 0
    /\ ps_emitted = <<>>
    /\ ps_save = "none"
    /\ ps_recovered = FALSE
    /\ ps_lost = 0
    /\ ps_fps_counter = 0

\* No VehicleCounter constructed.
ShareIdle ==
    /\ sh_heap = <<>>
    /\ sh_ref = 0
    /\ sh_ui_ref = 0
    /\ sh_emitted = <<>>
    /\ sh_pc = "none"
    /\ sh_counted = "absent"
    /\ sh_writers = {}

FourthIdle == SuppressIdle /\ PersistIdle /\ ShareIdle

LaterIdle == ReadIdle /\ LocksIdle /\ DirectionIdle /\ DebounceIdle /\ FourthIdle

ExtraIdle == SecondIdle /\ LaterIdle

PipelineIdle ==
    /\ config = DefaultConfig
    /\ TrackStateIs(NoTrackState)
    /\ count_events = NoEvents
    /\ life_events = NoEvents

-----------------------------------------------------------------------------
(***************************************************************************)
(* detector.py: VideoThread.crossed_horizontal_line.                       *)
(* Centroids and line geometry are integers (pixel values); t and x_cross  *)
(* are rationals, kept exact as numerator/denominator over denom = cy-py.  *)
(***************************************************************************)

\* x1 <= x_cross <= x2 for x_cross = num/den, den # 0.
XWithin(num, den, x1, x2) ==
    IF den > 0 THEN x1 * den <= num /\ num <= x2 * den
               ELSE x1 * den >= num /\ num >= x2 * den

\* 0.0 <= t <= 1.0 for t = (y - py) / denom, denom # 0.
TInUnit(y, py, denom) ==
    IF denom > 0 THEN 0 <= y - py /\ y - py <= denom
                 ELSE 0 >= y - py /\ y - py >= denom

\* A variant that treats a previous centroid exactly on the line as above it.
crossed_horizontal_line_strict(px, py, cx, cy, x1, x2, y, band) ==
    LET prev_side == py - y
        curr_side == cy - y
        denom     == cy - py
        num       == px * denom + (y - py) * (cx - px)
    IN  IF \/ (prev_side > band /\ curr_side > band)
           \/ (prev_side < -band /\ curr_side < -band)
        THEN NoCross
        ELSE IF denom = 0 THEN NoCross
        ELSE IF ~TInUnit(y, py, denom) THEN NoCross
        ELSE IF XWithin(num, denom, x1, x2)
             THEN IF py > y /\ cy < y
                  THEN [crossed |-> TRUE, x_num |-> num, x_den |-> denom, dir |-> "ida"]
                  ELSE IF py < y /\ cy >= y
                  THEN [crossed |-> TRUE, x_num |-> num, x_den |-> denom, dir |-> "volta"]
                  ELSE NoCross
             ELSE NoCross

\* A variant that also reports nothing when both centroids are within the
\* band of the line, so that its result depends on band_px.
crossed_horizontal_line_deadband(px, py, cx, cy, x1, x2, y, band) ==
    LET prev_side == py - y
        curr_side == cy - y
        denom     == cy - py
        num       == px * denom + (y - py) * (cx - px)
    IN  IF \/ (prev_side > band /\ curr_side > band)
           \/ (prev_side < -band /\ curr_side < -band)
           \/ (band > 0 /\ -band <= prev_side /\ prev_side <= band
                        /\ -band <= curr_side /\ curr_side <= band)
        THEN NoCross
        ELSE IF denom = 0 THEN NoCross
        ELSE IF ~TInUnit(y, py, denom) THEN NoCross
        ELSE IF XWithin(num, denom, x1, x2)
             THEN IF py >= y /\ cy < y
                  THEN [crossed |-> TRUE, x_num |-> num, x_den |-> denom, dir |-> "ida"]
                  ELSE IF py < y /\ cy >= y
                  THEN [crossed |-> TRUE, x_num |-> num, x_den |-> denom, dir |-> "volta"]
                  ELSE NoCross
             ELSE NoCross

crossed_horizontal_line(px, py, cx, cy, x1, x2, y, band) ==
    LET prev_side == py - y
        curr_side == cy - y
        denom     == cy - py
        num       == px * denom + (y - py) * (cx - px)
    IN  IF \/ (prev_side > band /\ curr_side > band)
           \/ (prev_side < -band /\ curr_side < -band)
        THEN NoCross
        ELSE IF denom = 0 THEN NoCross
        ELSE IF ~TInUnit(y, py, denom) THEN NoCross
        ELSE IF XWithin(num, denom, x1, x2)
             THEN IF py >= y /\ cy < y
                  THEN [crossed |-> TRUE, x_num |-> num, x_den |-> denom, dir |-> "ida"]
                  ELSE IF py < y /\ cy >= y
                  THEN [crossed |-> TRUE, x_num |-> num, x_den |-> denom, dir |-> "volta"]
                  ELSE NoCross
             ELSE NoCross

\* Bounds of the inputs tried in SpecLine.
MaxCoord == 4
MaxBand == 2

Coords == 0..MaxCoord

LineInputs ==
    [px : Coords, py : Coords, cx : Coords, cy : Coords,
     x1 : {1}, x2 : {MaxCoord - 1}, y : 1..(MaxCoord - 1), band : 0..MaxBand]

InitLine ==
    /\ ln_in \in LineInputs
    /\ ln_out = NotEvaluated
    /\ CounterIdle
    /\ PipelineIdle
    /\ QueueIdle
    /\ CaptureIdle
    /\ ExtraIdle

\* The call crossed_horizontal_line(prev_xy, curr_xy, lx1, lx2, ly, band).
CrossStep ==
    /\ ~ln_out.done
    /\ ln_out' = [done |-> TRUE,
                  res  |-> crossed_horizontal_line(ln_in.px, ln_in.py, ln_in.cx, ln_in.cy,
                                                   ln_in.x1, ln_in.x2, ln_in.y, ln_in.band)]
    /\ UNCHANGED ln_in
    /\ UNCHANGED notLine

NextLine == CrossStep

SpecLine == InitLine /\ [][NextLine]_vars

\* The precondition of C10: the previous centroid is on the line and the
\* crossing abscissa (x_cross = px when py = y) lies within [x1, x2].
PrevOnLine ==
    /\ ln_in.py = ln_in.y
    /\ ln_in.x1 <= ln_in.px /\ ln_in.px <= ln_in.x2

\* C10 as stated: with prev_y = y_line an event is reported in both cases,
\* 'ida' when curr_y < y_line and 'volta' when curr_y >= y_line.
C10_AsStated ==
    (ln_out.done /\ PrevOnLine) =>
        /\ ln_out.res.crossed
        /\ ln_out.res.dir = (IF ln_in.cy < ln_in.y THEN "ida" ELSE "volta")

\* C10 amended: with prev_y = y_line and the crossing x within [x1, x2],
\* crossed_horizontal_line reports an event iff curr_y < y_line, and its
\* direction is then 'ida'; with curr_y >= y_line it reports no event (a
\* 'volta' event needs prev_y < y_line), so never both directions.
C10_PrevOnLine ==
    (ln_out.done /\ PrevOnLine) =>
        /\ ln_out.res.crossed <=> (ln_in.cy < ln_in.y)
        /\ ln_out.res.crossed => ln_out.res.dir = "ida"
        /\ ~ln_out.res.crossed => ln_out.res.dir = "none"

\* Witness of C10: an evaluated step from the line upward that reported 'ida'.
C10_Witness ==
    /\ ln_out.done /\ PrevOnLine
    /\ ln_in.cy < ln_in.y
    /\ ln_out.res.crossed /\ ln_out.res.dir = "ida"

\* The two centroids lie on opposite sides of the line: prev_y >= y > curr_y
\* (upward) or prev_y < y <= curr_y (downward).
OppositeSides(in) ==
    \/ (in.py >= in.y /\ in.y > in.cy)
    \/ (in.py < in.y /\ in.y <= in.cy)

\* The crossing of the segment prev -> curr with the line, written without
\* band_px: opposite sides, and the abscissa of the intersection in [x1, x2].
CrossingWithoutBand(in) ==
    LET denom == in.cy - in.py
        num   == in.px * denom + (in.y - in.py) * (in.cx - in.px)
    IN  IF OppositeSides(in) /\ XWithin(num, denom, in.x1, in.x2)
        THEN [crossed |-> TRUE, x_num |-> num, x_den |-> denom,
              dir |-> IF in.py >= in.y THEN "ida" ELSE "volta"]
        ELSE NoCross

\* C39: the result of crossed_horizontal_line (crossed flag, x_cross and
\* direction) does not depend on band_px: for every band >= 0 it is the
\* result with band = 0, and a crossing is reported only when the two
\* centroids lie on opposite sides of the line.
C39_BandIrrelevant ==
    ln_out.done =>
        /\ ln_out.res = CrossingWithoutBand(ln_in)
        /\ ln_out.res = crossed_horizontal_line(ln_in.px, ln_in.py, ln_in.cx, ln_in.cy,
                                                ln_in.x1, ln_in.x2, ln_in.y, 0)
        /\ ln_out.res.crossed => OppositeSides(ln_in)

\* Witness of C39: a crossing reported with a positive band and both
\* centroids within the band of the line.
C39_Witness ==
    /\ ln_out.done /\ ln_out.res.crossed
    /\ ln_in.band > 0
    /\ ln_in.py - ln_in.y <= ln_in.band /\ ln_in.y - ln_in.py <= ln_in.band
    /\ ln_in.cy - ln_in.y <= ln_in.band /\ ln_in.y - ln_in.cy <= ln_in.band

-----------------------------------------------------------------------------
(***************************************************************************)
(* counter.py: VehicleCounter; database.py: CounterDatabase.               *)
(* Time is counted in ticks of 0.2 s.  _last_save_time is kept as the time *)
(* elapsed since it was set, saturating at the save interval (the code     *)
(* only asks whether that time is >= _save_interval).                      *)
(***************************************************************************)

\* self._save_interval = 5.0 s, in ticks of 0.2 s.
SAVE_INTERVAL == 25

\* The class names tried as categoria_en: two mapped ones, an unmapped one, "".
ClassNames == {"car", "moto", "person", ""}

\* self.categoria_map.get(categoria_en); "none" for a missing key.
categoria_map(categoria_en) ==
    CASE categoria_en = "car" -> "Carros"
      [] categoria_en \in {"moto", "motorcycle", "motor"} -> "Motos"
      [] categoria_en = "truck" -> "Caminhoes"
      [] categoria_en = "bus" -> "Onibus"
      [] OTHER -> "none"

\* CounterDatabase.CATEGORIA_MAP_ID.get(categoria, 0).
CATEGORIA_MAP_ID(categoria) ==
    CASE categoria = "Carros" -> 1
      [] categoria = "Motos" -> 2
      [] categoria = "Caminhoes" -> 3
      [] categoria = "Onibus" -> 4
      [] OTHER -> 0

\* CounterDatabase.SENTIDO_MAP_ID.get(sentido, 0).
SENTIDO_MAP_ID(sentido) ==
    CASE sentido = "ida" -> 1
      [] sentido = "volta" -> 2
      [] OTHER -> 0

\* The sum over the four categories of contadores[category][d].
SumCats(contadores, d) ==
    contadores["Carros"][d] + contadores["Motos"][d]
        + contadores["Caminhoes"][d] + contadores["Onibus"][d]

\* save_counters with a DELETE that is not restricted to the camera.
save_counters_delete_all(db, contadores, rtsp_url) ==
    [db EXCEPT !.contadores =
        {[rtsp_url |-> rtsp_url, categoria |-> c, sentido |-> d,
          valor |-> contadores[c][d]] : c \in Cats, d \in Dirs}]

\* CounterDatabase.save_counters: DELETE the camera's rows, INSERT one row per
\* category other than 'total' and per sentido, commit.
save_counters(db, contadores, rtsp_url) ==
    [db EXCEPT !.contadores =
        {r \in @ : r.rtsp_url # rtsp_url} \cup
        {[rtsp_url |-> rtsp_url, categoria |-> c, sentido |-> d,
          valor |-> contadores[c][d]] : c \in Cats, d \in Dirs}]

\* CounterDatabase.load_counters: the default structure, overwritten by the
\* camera's rows, then the totals recomputed as the sums.
load_counters(db, rtsp_url) ==
    LET rows == {r \in db.contadores : r.rtsp_url = rtsp_url}
        cell(c, d) ==
            IF \E r \in rows : r.categoria = c /\ r.sentido = d
            THEN (CHOOSE r \in rows : r.categoria = c /\ r.sentido = d).valor
            ELSE 0
        filled == [c \in AllCats |-> [d \in Dirs |-> cell(c, d)]]
    IN  [filled EXCEPT !["total"] = [d \in Dirs |-> SumCats(filled, d)]]

\* CounterDatabase._get_camera_id: the camera row is created on first use.
get_camera_id(db, rtsp_url) ==
    [db EXCEPT !.cameras = @ \cup {rtsp_url}]

\* An add_to_history whose row comes before the rows already stored.
add_to_history_first(db, categoria_en, categoria, sentido, rtsp_url) ==
    IF rtsp_url = "" THEN db
    ELSE LET db1 == get_camera_id(db, rtsp_url)
         IN  [db1 EXCEPT !.historico_v2 =
                <<[camera |-> rtsp_url,
                   categoria_id |-> CATEGORIA_MAP_ID(categoria),
                   sentido_id |-> SENTIDO_MAP_ID(sentido)]>> \o @]

\* CounterDatabase.add_to_history: nothing without a URL; else the camera is
\* resolved and one row is inserted into historico_v2.
add_to_history(db, categoria_en, categoria, sentido, rtsp_url) ==
    IF rtsp_url = "" THEN db
    ELSE LET db1 == get_camera_id(db, rtsp_url)
         IN  [db1 EXCEPT !.historico_v2 =
                Append(@, [camera |-> rtsp_url,
                           categoria_id |-> CATEGORIA_MAP_ID(categoria),
                           sentido_id |-> SENTIDO_MAP_ID(sentido)])]

\* CounterDatabase.clear_all: DELETE FROM contadores, DELETE FROM historico_v2.
clear_all(db) ==
    [db EXCEPT !.contadores = {}, !.historico_v2 = <<>>]

\* The two increments of adicionar with the one of the total left out.
increment_no_total(contadores, categoria, sentido) ==
    [contadores EXCEPT ![categoria][sentido] = @ + 1]

\* adicionar: contadores['total'][sentido] += 1; contadores[categoria][sentido] += 1.
increment(contadores, categoria, sentido) ==
    [contadores EXCEPT !["total"][sentido] = @ + 1, ![categoria][sentido] = @ + 1]

\* VehicleCounter.save_to_database: save_counters then flush.
save_to_database(c, db) ==
    save_counters(db, c.contadores, c.rtsp_url)

\* Whether adicionar(categoria_en, sentido) passes its input validation.
adicionar_accepts(categoria_en, sentido) ==
    categoria_en # "" /\ sentido \in Dirs

\* VehicleCounter.adicionar: returns the counter and the database after the call.
adicionar(c, db, categoria_en, sentido) ==
    IF ~adicionar_accepts(categoria_en, sentido)
    THEN [counter |-> c, database |-> db]
    ELSE
      LET mapped    == categoria_map(categoria_en)
          categoria == IF mapped = "none" THEN "Carros" ELSE mapped
          c1  == [c EXCEPT
                    !.contadores = increment(@, categoria, sentido),
                    !.historico = Append(@, [categoria_en |-> categoria_en,
                                             categoria |-> categoria,
                                             sentido |-> sentido])]
          due == c1.since_last_save >= SAVE_INTERVAL
          db1 == IF due THEN save_to_database(c1, db) ELSE db
          c2  == IF due THEN [c1 EXCEPT !.since_last_save = 0] ELSE c1
      IN  [counter  |-> c2,
           database |-> add_to_history(db1, categoria_en, categoria, sentido, c2.rtsp_url)]

\* Whether that call of adicionar reaches save_to_database.
adicionar_saves(c, categoria_en, sentido) ==
    adicionar_accepts(categoria_en, sentido) /\ c.since_last_save >= SAVE_INTERVAL

\* Bounds of SpecCounter: vehicles counted in memory, history rows stored.
MaxCount == 2
MaxHist == 1

\* The time that passes before a call: none, or a whole save interval.
ElapseSteps == {0, SAVE_INTERVAL}

InitCounter ==
    /\ CounterIdle
    /\ LineIdle
    /\ PipelineIdle
    /\ QueueIdle
    /\ CaptureIdle
    /\ ExtraIdle

\* time.time() - self._last_save_time after dt more ticks.
elapse(c, dt) ==
    [c EXCEPT !.since_last_save =
        IF @ + dt > SAVE_INTERVAL THEN SAVE_INTERVAL ELSE @ + dt]

\* dt ticks pass, then the pipeline thread calls
\* counter.adicionar(categoria_en, sentido).
Adicionar(categoria_en, sentido, dt) ==
    /\ SumCats(counter.contadores, "ida") + SumCats(counter.contadores, "volta") < MaxCount
    /\ Len(database.historico_v2) < MaxHist
    /\ LET c0 == elapse(counter, dt)
           r  == adicionar(c0, database, categoria_en, sentido)
       IN  /\ counter' = r.counter
           /\ database' = r.database
           /\ saved' = IF adicionar_saves(c0, categoria_en, sentido)
                       THEN [saved EXCEPT ![counter.rtsp_url] = r.counter.contadores]
                       ELSE saved
    /\ ui_counters' = ZeroCounters
    /\ UNCHANGED notCounter

\* VehicleCounter.reset (main_window._reset_counter_only).
Reset ==
    /\ counter' = [counter EXCEPT !.contadores = ZeroCounters, !.historico = <<>>]
    /\ ui_counters' = ZeroCounters
    /\ UNCHANGED notCounter
    /\ UNCHANGED <<database, saved>>

\* VehicleCounter.reset_all: reset, then database.clear_all.
ResetAll ==
    /\ counter' = [counter EXCEPT !.contadores = ZeroCounters, !.historico = <<>>]
    /\ database' = clear_all(database)
    /\ saved' = [u \in Urls |-> NoSnap]
    /\ ui_counters' = ZeroCounters
    /\ UNCHANGED notCounter

\* VehicleCounter.__init__(database, rtsp_url): load_counters when a URL is
\* given, reset otherwise.
Construct(url) ==
    /\ counter' = NewCounter(url, IF url # "" THEN load_counters(database, url)
                                  ELSE ZeroCounters)
    /\ ui_counters' = ZeroCounters
    /\ UNCHANGED notCounter
    /\ UNCHANGED <<database, saved>>

\* VehicleCounter.save_to_database, as VideoThread.cleanup calls it.
SaveToDatabase ==
    /\ database' = save_to_database(counter, database)
    /\ saved' = [saved EXCEPT ![counter.rtsp_url] = counter.contadores]
    /\ ui_counters' = ZeroCounters
    /\ UNCHANGED notCounter
    /\ UNCHANGED counter

\* self.update_counters.emit(self.counter.contadores).
EmitCounters ==
    /\ ui_counters' = counter.contadores
    /\ UNCHANGED <<counter, database, saved>>
    /\ UNCHANGED notCounter

NextCounter ==
    \/ \E cls \in ClassNames, s \in Dirs \cup {"indefinido"}, dt \in ElapseSteps :
            Adicionar(cls, s, dt)
    \/ Reset
    \/ ResetAll
    \/ \E u \in Urls : Construct(u)
    \/ SaveToDatabase
    \/ EmitCounters

SpecCounter == InitCounter /\ [][NextCounter]_vars

\* A counters dict whose totals are the sums and whose counts are >= 0.
TotalsConsistent(contadores) ==
    \A d \in Dirs :
        /\ contadores["total"][d] = SumCats(contadores, d)
        /\ \A c \in AllCats : contadores[c][d] >= 0

C9_RoundTrip ==
    \A u \in Urls : saved[u] # NoSnap => load_counters(database, u) = saved[u]

\* Witness of C9: two cameras hold different non-zero saved snapshots.
C9_Witness ==
    /\ saved["cam1"] # NoSnap /\ saved[""] # NoSnap
    /\ saved["cam1"] # saved[""]
    /\ saved["cam1"]["total"]["ida"] > 0
    /\ saved[""]["total"]["volta"] > 0

-----------------------------------------------------------------------------
(***************************************************************************)
(* detector.py: VideoThread.process_video, steps 5, 6 and 10: the counting *)
(* of the tracks of one frame and the cleanup of old tracks.               *)
(* A track is given by its id, its label and the centroid of its box.      *)
(* Times are in ticks of 0.2 s; track_last_seen and track_last_event_time  *)
(* are kept as the time elapsed since they were set, saturating just above *)
(* the threshold they are compared with.                                   *)
(***************************************************************************)

\* ph, pw = proc_frame.shape[:2]: the processed frame tried.
FrameW == 20
FrameH == 20

\* line_config defaults, in percent, and band_px.
X1_RATIO == 10
X2_RATIO == 90
Y_RATIO == 55
BAND_PX == 2
\* The x_mid_ratio tried when it is set, in percent.
X_MID_RATIO == 50

\* lx1 = int(pw * x1_ratio), lx2 = int(pw * x2_ratio), ly = int(ph * y_ratio).
lx1 == (FrameW * X1_RATIO) \div 100
lx2 == (FrameW * X2_RATIO) \div 100
ly == (FrameH * Y_RATIO) \div 100
x_mid_px == (FrameW * X_MID_RATIO) \div 100

\* zones_config defaults, in percent: (x1, y1, x2, y2).
down_r == <<10, 60, 90, 95>>
up_r == <<10, 5, 90, 40>>

\* zones_direction default.
zones_dir(zone) == IF zone = "down" THEN "ida" ELSE "volta"

\* zone_event_cooldown = 0.8 s and track_ttl = 2.0 s, in ticks of 0.2 s.
ZONE_COOLDOWN == 4
TRACK_TTL == 10

\* in_rect(pt, rect_norm).
in_rect(x, y, rect) ==
    LET x1 == (rect[1] * FrameW) \div 100
        y1 == (rect[2] * FrameH) \div 100
        x2 == (rect[3] * FrameW) \div 100
        y2 == (rect[4] * FrameH) \div 100
    IN  x1 <= x /\ x <= x2 /\ y1 <= y /\ y <= y2

\* now = 'down' if in_rect(curr_xy, down_r) else ('up' if in_rect(curr_xy, up_r) else None)
zone_of(x, y) ==
    IF in_rect(x, y, down_r) THEN "down"
    ELSE IF in_rect(x, y, up_r) THEN "up" ELSE "None"

swap_direction(s) == IF s = "ida" THEN "volta" ELSE "ida"

\* x_cross < m for x_cross = num/den, den # 0.
XBelow(num, den, m) == IF den > 0 THEN num < m * den ELSE num > m * den

\* A line branch that inverts the sentido before the x_mid override.
line_event_inverts_first(cfg, px, py, cx, cy) ==
    LET r  == crossed_horizontal_line(px, py, cx, cy, lx1, lx2, ly, BAND_PX)
        s1 == IF cfg.invert_direction THEN swap_direction(r.dir) ELSE r.dir
        s2 == IF cfg.x_mid_set
              THEN (IF XBelow(r.x_num, r.x_den, x_mid_px) THEN "ida" ELSE "volta")
              ELSE s1
        dropped == \/ (cfg.direction_mode = "ida_only" /\ s2 = "volta")
                   \/ (cfg.direction_mode = "volta_only" /\ s2 = "ida")
    IN  IF r.crossed THEN [crossed |-> ~dropped, s_event |-> s2]
        ELSE [crossed |-> FALSE, s_event |-> "none"]

\* The line branch up to the direction filter: whether the step counts as a
\* crossing, and its sentido (s_event).
line_event(cfg, px, py, cx, cy) ==
    LET r  == crossed_horizontal_line(px, py, cx, cy, lx1, lx2, ly, BAND_PX)
        s1 == IF cfg.x_mid_set
              THEN (IF XBelow(r.x_num, r.x_den, x_mid_px) THEN "ida" ELSE "volta")
              ELSE r.dir
        s2 == IF cfg.invert_direction THEN swap_direction(s1) ELSE s1
        dropped == \/ (cfg.direction_mode = "ida_only" /\ s2 = "volta")
                   \/ (cfg.direction_mode = "volta_only" /\ s2 = "ida")
    IN  IF r.crossed THEN [crossed |-> ~dropped, s_event |-> s2]
        ELSE [crossed |-> FALSE, s_event |-> "none"]

\* A counting that forgets to mark the track as counted.
mark_counted_forgets(flags, sentido) == flags

\* self.track_counted[track_id][sentido] = True.
mark_counted(flags, sentido) == [flags EXCEPT ![sentido] = TRUE]

\* self.counter.adicionar(class_name, sentido) followed by the marking.
count_vehicle(st, track_id, class_name, sentido) ==
    LET r == adicionar(st.counter, st.database, class_name, sentido)
    IN  [st EXCEPT !.counter = r.counter,
                   !.database = r.database,
                   !.track_counted[track_id] = mark_counted(@, sentido),
                   !.count_events[track_id][sentido] = @ + 1,
                   !.life_events[track_id][sentido] = @ + 1]

\* A line branch that marks the sentido of a filtered crossing as counted.
line_count_marks_dropped(st, cfg, track_id, class_name, px, py, cx, cy) ==
    LET e == line_event(cfg, px, py, cx, cy)
    IN  IF e.crossed /\ ~st.track_counted[track_id][e.s_event]
        THEN count_vehicle(st, track_id, class_name, e.s_event)
        ELSE IF e.s_event # "none"
        THEN [st EXCEPT !.track_counted[track_id][e.s_event] = TRUE]
        ELSE st

\* The line branch for one track.
line_count(st, cfg, track_id, class_name, px, py, cx, cy) ==
    LET e == line_event(cfg, px, py, cx, cy)
    IN  IF e.crossed /\ ~st.track_counted[track_id][e.s_event]
        THEN count_vehicle(st, track_id, class_name, e.s_event)
        ELSE st

\* A cooldown that never rejects.
cooled_always(last_t) == TRUE

\* current_time - last_t > cooldown, for last_t the time since the last event
\* of the track, and true when the track has no last event (last_t = 0).
cooled(last_t) == last_t = Absent \/ last_t > ZONE_COOLDOWN

\* A zone branch that leaves last_zone alone when the cooldown rejects the
\* change.
zone_count_keeps_rejected(st, track_id, class_name, cx, cy) ==
    LET now    == zone_of(cx, cy)
        was    == IF st.track_last_zone[track_id] = "absent" THEN "None"
                  ELSE st.track_last_zone[track_id]
        target == zones_dir(now)
        last_t == st.track_last_event_time[track_id]
        st1 == IF now # "None" /\ now # was /\ cooled(last_t)
                  /\ ~st.track_counted[track_id][target]
               THEN [count_vehicle(st, track_id, class_name, target)
                        EXCEPT !.track_last_event_time[track_id] = 0]
               ELSE st
    IN  IF now # "None" /\ now # was /\ ~cooled(last_t) THEN st1
        ELSE [st1 EXCEPT !.track_last_zone[track_id] = now]

\* The zone branch for one track.
zone_count(st, track_id, class_name, cx, cy) ==
    LET now    == zone_of(cx, cy)
        was    == IF st.track_last_zone[track_id] = "absent" THEN "None"
                  ELSE st.track_last_zone[track_id]
        target == zones_dir(now)
        last_t == st.track_last_event_time[track_id]
        st1 == IF now # "None" /\ now # was /\ cooled(last_t)
                  /\ ~st.track_counted[track_id][target]
               THEN [count_vehicle(st, track_id, class_name, target)
                        EXCEPT !.track_last_event_time[track_id] = 0]
               ELSE st
    IN  [st1 EXCEPT !.track_last_zone[track_id] = now]

\* A body that takes the origin as the previous centre of a track it has no
\* stored centre for.
process_track_from_origin(st, cfg, track_id, class_name, cx, cy) ==
    IF class_name \notin cfg.categorias THEN st
    ELSE
      LET st1  == IF st.track_counted[track_id].present THEN st
                  ELSE [st EXCEPT
                          !.track_counted[track_id] =
                              [present |-> TRUE, ida |-> FALSE, volta |-> FALSE],
                          !.life_events[track_id] = [d \in Dirs |-> 0]]
          prev == IF st.track_last_center_xy[track_id].present
                  THEN st.track_last_center_xy[track_id]
                  ELSE [present |-> TRUE, x |-> 0, y |-> 0]
          st2  == IF cfg.counting_mode = "line"
                  THEN line_count(st1, cfg, track_id, class_name, prev.x, prev.y, cx, cy)
                  ELSE zone_count(st1, track_id, class_name, cx, cy)
      IN  [st2 EXCEPT
              !.track_last_center_xy[track_id] = [present |-> TRUE, x |-> cx, y |-> cy],
              !.track_last_seen[track_id] = 0]

\* The body of "for track_data in current_tracks" for one track.
process_track(st, cfg, track_id, class_name, cx, cy) ==
    IF class_name \notin cfg.categorias THEN st
    ELSE
      LET st1  == IF st.track_counted[track_id].present THEN st
                  ELSE [st EXCEPT
                          !.track_counted[track_id] =
                              [present |-> TRUE, ida |-> FALSE, volta |-> FALSE],
                          !.life_events[track_id] = [d \in Dirs |-> 0]]
          prev == IF st.track_last_center_xy[track_id].present
                  THEN st.track_last_center_xy[track_id]
                  ELSE [present |-> TRUE, x |-> cx, y |-> cy]
          st2  == IF cfg.counting_mode = "line"
                  THEN line_count(st1, cfg, track_id, class_name, prev.x, prev.y, cx, cy)
                  ELSE zone_count(st1, track_id, class_name, cx, cy)
      IN  [st2 EXCEPT
              !.track_last_center_xy[track_id] = [present |-> TRUE, x |-> cx, y |-> cy],
              !.track_last_seen[track_id] = 0]

\* The loop over current_tracks, in the order of the list.
RECURSIVE process_tracks(_, _, _, _)
process_tracks(st, cfg, ids, tracks) ==
    IF ids = <<>> THEN st
    ELSE LET t == Head(ids)
             next == IF tracks[t].here
                     THEN process_track(st, cfg, t, tracks[t].label, tracks[t].x, tracks[t].y)
                     ELSE st
         IN  process_tracks(next, cfg, Tail(ids), tracks)

\* Step 10: every id whose last_seen is older than track_ttl is popped from
\* track_last_center_xy, track_counted, track_last_seen and track_last_zone.
cleanup_old_tracks(st) ==
    LET old(t) == st.track_last_seen[t] # Absent /\ st.track_last_seen[t] > TRACK_TTL
    IN  [st EXCEPT
          !.track_last_center_xy = [t \in Tracks |-> IF old(t) THEN NoCenter ELSE @[t]],
          !.track_counted = [t \in Tracks |-> IF old(t) THEN NoFlags ELSE @[t]],
          !.track_last_seen = [t \in Tracks |-> IF old(t) THEN Absent ELSE @[t]],
          !.track_last_zone = [t \in Tracks |-> IF old(t) THEN "absent" ELSE @[t]]]

\* An elapsed time after dt more ticks, saturating at cap.
aged(age, dt, cap) ==
    IF age = Absent THEN Absent
    ELSE IF age + dt > cap THEN cap ELSE age + dt

\* The state as time.time() sees it dt ticks later.
later(st, dt) ==
    [st EXCEPT
      !.counter = elapse(@, dt),
      !.track_last_seen = [t \in Tracks |-> aged(@[t], dt, TRACK_TTL + 1)],
      !.track_last_event_time = [t \in Tracks |-> aged(@[t], dt, ZONE_COOLDOWN + 1)]]

\* One iteration of the loop of process_video with monitoring active: the
\* tracks are counted when the tracker reports any, then old tracks are
\* cleaned up.
process_frame(st, cfg, dt, tracks) ==
    LET st0 == later(st, dt)
        st1 == IF \E t \in Tracks : tracks[t].here
               THEN process_tracks(st0, cfg, <<1, 2>>, tracks)
               ELSE st0
    IN  cleanup_old_tracks(st1)

\* Bound of SpecPipeline: no further frame once this many history rows exist.
MaxEvents == 2

\* The centroids tried: in the 'up' zone above the line, on the line and
\* outside both zones, and in the 'down' zone below the line.
Points == {<<10, 5>>, <<10, 11>>, <<10, 15>>}

\* What the tracker reports for one track id in one frame: nothing, a car at
\* one of the points, or a pedestrian. The second track is only tried absent
\* or as a car on either side of the line.
NotReported == [here |-> FALSE, label |-> "", x |-> 0, y |-> 0]
Car(p) == [here |-> TRUE, label |-> "car", x |-> p[1], y |-> p[2]]
TrackInputs(t) ==
    IF t = 1
    THEN {NotReported, [here |-> TRUE, label |-> "person", x |-> 10, y |-> 15]}
            \cup {Car(p) : p \in Points}
    ELSE {NotReported, Car(<<10, 5>>), Car(<<10, 15>>)}

FrameInputs == {f \in [Tracks -> UNION {TrackInputs(t) : t \in Tracks}] :
                    \A t \in Tracks : f[t] \in TrackInputs(t)}

\* The times tried between two frames: within the zone cooldown and the
\* track TTL, and beyond both.
FrameSteps == {ZONE_COOLDOWN, 3 * ZONE_COOLDOWN}

\* The configurations tried.
Configs ==
    [counting_mode : {"line", "zone"}, invert_direction : {FALSE},
     direction_mode : {"both"}, x_mid_set : {FALSE}, categorias : {Categorias}]

PipelineState ==
    [counter |-> counter, database |-> database,
     track_counted |-> track_counted,
     track_last_center_xy |-> track_last_center_xy,
     track_last_zone |-> track_last_zone,
     track_last_event_time |-> track_last_event_time,
     track_last_seen |-> track_last_seen,
     count_events |-> count_events, life_events |-> life_events]

PipelineBecomes(st) ==
    /\ counter' = st.counter
    /\ database' = st.database
    /\ track_counted' = st.track_counted
    /\ track_last_center_xy' = st.track_last_center_xy
    /\ track_last_zone' = st.track_last_zone
    /\ track_last_event_time' = st.track_last_event_time
    /\ track_last_seen' = st.track_last_seen
    /\ count_events' = st.count_events
    /\ life_events' = st.life_events

\* VideoThread.__init__ with a camera URL and an empty store.
InitPipeline ==
    /\ config \in Configs
    /\ TrackStateIs(NoTrackState)
    /\ count_events = NoEvents
    /\ life_events = NoEvents
    /\ counter = NewCounter("cam1", ZeroCounters)
    /\ database = EmptyDatabase
    /\ ui_counters = ZeroCounters
    /\ saved = [u \in Urls |-> NoSnap]
    /\ LineIdle
    /\ QueueIdle
    /\ CaptureIdle
    /\ ExtraIdle

\* One processed frame, dt ticks after the previous one, ending with the
\* emission of the counters.
Frame(dt, tracks) ==
    /\ Len(database.historico_v2) < MaxEvents
    /\ LET st == process_frame(PipelineState, config, dt, tracks)
       IN  /\ PipelineBecomes(st)
           /\ ui_counters' = st.counter.contadores
    /\ UNCHANGED <<config, saved>>
    /\ UNCHANGED notPipeline

\* main_window._reset_counter_only: counter.reset() and every track map
\* cleared, from the UI thread, between two frames.
ResetCounterOnly ==
    /\ counter' = [counter EXCEPT !.contadores = ZeroCounters, !.historico = <<>>]
    /\ track_counted' = [t \in Tracks |-> NoFlags]
    /\ track_last_center_xy' = [t \in Tracks |-> NoCenter]
    /\ track_last_zone' = [t \in Tracks |-> "absent"]
    /\ track_last_event_time' = [t \in Tracks |-> Absent]
    /\ track_last_seen' = [t \in Tracks |-> Absent]
    /\ UNCHANGED <<database, ui_counters, saved, config, count_events, life_events>>
    /\ UNCHANGED notPipeline

NextPipeline ==
    \/ \E dt \in FrameSteps, tracks \in FrameInputs : Frame(dt, tracks)
    \/ ResetCounterOnly

SpecPipeline == InitPipeline /\ [][NextPipeline]_vars

\* C1 as stated: over the whole run, counter.adicionar is called at most once
\* for each pair (track id, sentido).
C1_AsStated ==
    \A t \in Tracks, d \in Dirs : count_events[t][d] <= 1

\* C1 amended: within one lifetime of a track's transient state, that is
\* since track_counted[id] was last created, counter.adicionar is called at
\* most once for each pair (track id, sentido), and its flag then stands.
C1_OncePerLifetime ==
    \A t \in Tracks, d \in Dirs :
        /\ life_events[t][d] <= 1
        /\ (track_counted[t].present /\ life_events[t][d] = 1) => track_counted[t][d]

\* Witness of C1: a track counted in both directions while a second track
\* was counted too.
C1_Witness ==
    /\ track_counted[1].present /\ track_counted[1].ida /\ track_counted[1].volta
    /\ life_events[1]["ida"] = 1 /\ life_events[1]["volta"] = 1
    /\ count_events[2]["ida"] = 1

-----------------------------------------------------------------------------
(***************************************************************************)
(* queue_manager.py, queue_database.py and step 7 of process_video: the    *)
(* queue dwell-time state machine of each track and the rows it persists.  *)
(* Times are in ticks of 0.5 s, so that a stored time string, which has a  *)
(* resolution of one second, is not the time it was formatted from.  The   *)
(* polygon is taken as configured with at least 3 points; whether the foot *)
(* point of a track is inside it is an input of the frame.                 *)
(***************************************************************************)

ENTER_FRAMES == 3
EXIT_FRAMES == 12

\* Ticks in one second.
TICKS_PER_SEC == 2
\* queue_config min_wait_time = 5.0 s and threshold_seconds = 60, in ticks.
MIN_WAIT_TIME == 10
THRESHOLD == 120

\* The fallback of _finalize_vehicle for a queue_config without the key
\* min_wait_time: 2.0 s, in ticks.
FALLBACK_MIN_WAIT == 4

\* config.py: default_config['queue_config'].
DefaultQueueConfig ==
    [present |-> TRUE, has_min |-> TRUE, min_wait_time |-> MIN_WAIT_TIME]

\* Config.get('queue_config', {}): the value in config.json, the default
\* dictionary when config.json has no such key.
Config_get_queue_config(qc) == IF qc.present THEN qc ELSE DefaultQueueConfig

\* self.config.get('queue_config', {}).get('min_wait_time', 2.0).
min_wait_time(qc) ==
    LET q_cfg == Config_get_queue_config(qc)
    IN  IF q_cfg.has_min THEN q_cfg.min_wait_time ELSE FALLBACK_MIN_WAIT

\* datetime.fromtimestamp(t).strftime('%Y-%m-%d %H:%M:%S'): t in whole seconds.
strftime(t) == t \div TICKS_PER_SEC

\* round(wait_time, 2): a multiple of 0.5 s has at most one decimal.
round2(wait_time) == wait_time

\* QueueManager._finalize_vehicle followed by QueueDatabase.save_event.
finalize_vehicle(q, track_id, current_time) ==
    LET v == q.waiting_vehicles[track_id]
        wait_time == v.current_wait
        row == [track_id |-> track_id,
                entry_time |-> strftime(v.entry_time),
                exit_time |-> strftime(current_time),
                wait_duration_sec |-> round2(wait_time),
                vehicle_class |-> "car"]
    IN  IF wait_time < min_wait_time(q.config)
        THEN [q EXCEPT !.waiting_vehicles[track_id].state = "FINISHED"]
        ELSE [q EXCEPT !.completed_waits = Append(@, <<wait_time, current_time>>),
                       !.session_history = Append(@, row),
                       !.queue_history = Append(@, row),
                       !.waiting_vehicles[track_id].state = "FINISHED"]

\* An update in which a frame outside the polygon leaves frames_inside alone.
update_track_outside_keeps(q, track_id, inside, current_time) ==
    LET v0 == IF q.waiting_vehicles[track_id].present
              THEN q.waiting_vehicles[track_id]
              ELSE [NoVehicle EXCEPT !.present = TRUE]
        put(v) == [q EXCEPT !.waiting_vehicles[track_id] = v]
    IN  IF v0.state = "IDLE"
        THEN IF inside
             THEN IF v0.frames_inside + 1 >= ENTER_FRAMES
                  THEN put([v0 EXCEPT !.state = "IN_QUEUE",
                                      !.entry_time = current_time,
                                      !.frames_inside = 0,
                                      !.frames_outside = 0])
                  ELSE put([v0 EXCEPT !.frames_inside = @ + 1,
                                      !.frames_outside = 0])
             ELSE put(v0)
        ELSE IF v0.state = "IN_QUEUE"
        THEN LET v1 == [v0 EXCEPT !.current_wait = current_time - v0.entry_time]
             IN  IF ~inside
                 THEN LET v2 == [v1 EXCEPT !.frames_outside = @ + 1,
                                           !.frames_inside = 0]
                      IN  IF v2.frames_outside >= EXIT_FRAMES
                          THEN finalize_vehicle(put(v2), track_id, current_time)
                          ELSE put(v2)
                 ELSE put([v1 EXCEPT !.frames_outside = 0,
                                     !.frames_inside = @ + 1])
        ELSE put(v0)

\* An update in which a frame inside the polygon leaves frames_outside alone.
update_track_inside_keeps(q, track_id, inside, current_time) ==
    LET v0 == IF q.waiting_vehicles[track_id].present
              THEN q.waiting_vehicles[track_id]
              ELSE [NoVehicle EXCEPT !.present = TRUE]
        put(v) == [q EXCEPT !.waiting_vehicles[track_id] = v]
    IN  IF v0.state = "IDLE"
        THEN IF inside
             THEN IF v0.frames_inside + 1 >= ENTER_FRAMES
                  THEN put([v0 EXCEPT !.state = "IN_QUEUE",
                                      !.entry_time = current_time,
                                      !.frames_inside = 0,
                                      !.frames_outside = 0])
                  ELSE put([v0 EXCEPT !.frames_inside = @ + 1,
                                      !.frames_outside = 0])
             ELSE put([v0 EXCEPT !.frames_inside = 0])
        ELSE IF v0.state = "IN_QUEUE"
        THEN LET v1 == [v0 EXCEPT !.current_wait = current_time - v0.entry_time]
             IN  IF ~inside
                 THEN LET v2 == [v1 EXCEPT !.frames_outside = @ + 1,
                                           !.frames_inside = 0]
                      IN  IF v2.frames_outside >= EXIT_FRAMES
                          THEN finalize_vehicle(put(v2), track_id, current_time)
                          ELSE put(v2)
                 ELSE put([v1 EXCEPT !.frames_inside = @ + 1])
        ELSE put(v0)

\* The body of "for track in tracks" of QueueManager.update for one track.
update_track(q, track_id, inside, current_time) ==
    LET v0 == IF q.waiting_vehicles[track_id].present
              THEN q.waiting_vehicles[track_id]
              ELSE [NoVehicle EXCEPT !.present = TRUE]
        put(v) == [q EXCEPT !.waiting_vehicles[track_id] = v]
    IN  IF v0.state = "IDLE"
        THEN IF inside
             THEN IF v0.frames_inside + 1 >= ENTER_FRAMES
                  THEN put([v0 EXCEPT !.state = "IN_QUEUE",
                                      !.entry_time = current_time,
                                      !.frames_inside = 0,
                                      !.frames_outside = 0])
                  ELSE put([v0 EXCEPT !.frames_inside = @ + 1,
                                      !.frames_outside = 0])
             ELSE put([v0 EXCEPT !.frames_inside = 0])
        ELSE IF v0.state = "IN_QUEUE"
        THEN LET v1 == [v0 EXCEPT !.current_wait = current_time - v0.entry_time]
             IN  IF ~inside
                 THEN LET v2 == [v1 EXCEPT !.frames_outside = @ + 1,
                                           !.frames_inside = 0]
                      IN  IF v2.frames_outside >= EXIT_FRAMES
                          THEN finalize_vehicle(put(v2), track_id, current_time)
                          ELSE put(v2)
                 ELSE put([v1 EXCEPT !.frames_outside = 0,
                                     !.frames_inside = @ + 1])
        ELSE put(v0)

RECURSIVE update_tracks(_, _, _, _)
update_tracks(q, ids, tracks, current_time) ==
    IF ids = <<>> THEN q
    ELSE LET t == Head(ids)
             next == IF tracks[t] = "absent" THEN q
                     ELSE update_track(q, t, tracks[t] = "inside", current_time)
         IN  update_tracks(next, Tail(ids), tracks, current_time)

\* "gone": the vehicles absent from the track list are finalized when they
\* were IN_QUEUE, and deleted.
RECURSIVE cleanup_gone(_, _, _, _)
cleanup_gone(q, ids, tracks, current_time) ==
    IF ids = <<>> THEN q
    ELSE LET t == Head(ids)
             v == q.waiting_vehicles[t]
             q1 == IF v.present /\ v.state = "IN_QUEUE"
                   THEN finalize_vehicle(q, t, current_time) ELSE q
             next == IF v.present /\ tracks[t] = "absent"
                     THEN [q1 EXCEPT !.waiting_vehicles[t] = NoVehicle]
                     ELSE q
         IN  cleanup_gone(next, Tail(ids), tracks, current_time)

\* "finished": the vehicles in the state FINISHED are deleted.
cleanup_finished(q) ==
    [q EXCEPT !.waiting_vehicles =
        [t \in Tracks |-> IF @[t].present /\ @[t].state = "FINISHED"
                          THEN NoVehicle ELSE @[t]]]

Max(S) == CHOOSE m \in S : \A n \in S : n <= m

\* The metrics at the end of update.
metrics(q) ==
    LET in_queue == {t \in Tracks : q.waiting_vehicles[t].present
                                    /\ q.waiting_vehicles[t].state = "IN_QUEUE"}
    IN  [q EXCEPT !.current_queue_size = Cardinality(in_queue),
                  !.max_wait_current =
                      Max({0} \cup {q.waiting_vehicles[t].current_wait : t \in in_queue})]

\* QueueManager.status, which update derives from max_wait_current.
status(q) ==
    IF q.max_wait_current > THRESHOLD THEN "Critico"
    ELSE IF 2 * q.max_wait_current > THRESHOLD THEN "Atencao" ELSE "Normal"

\* QueueManager.update(tracks, frame_shape) at time current_time.
update(q, tracks, current_time) ==
    metrics(cleanup_finished(
        cleanup_gone(update_tracks(q, <<1, 2>>, tracks, current_time),
                     <<1, 2>>, tracks, current_time)))

\* Bound of SpecQueue: the time of the last frame tried.
MaxTime == 26

\* What the tracker reports for one track id in one frame: nothing, or a box
\* whose foot point is inside or outside the polygon. The second track is
\* only tried absent or outside.
QueueInputs(t) ==
    IF t = 1 THEN {"absent", "inside", "outside"} ELSE {"absent", "outside"}

QueueFrames == {f \in [Tracks -> {"absent", "inside", "outside"}] :
                    \A t \in Tracks : f[t] \in QueueInputs(t)}

\* The times tried between two frames: 0.5 s and 5 s.
QueueSteps == {1, MIN_WAIT_TIME}

QueueState ==
    [waiting_vehicles |-> waiting_vehicles,
     completed_waits |-> completed_waits,
     session_history |-> session_history,
     current_queue_size |-> current_queue_size,
     max_wait_current |-> max_wait_current,
     queue_history |-> queue_history,
     config |-> queue_config]

QueueBecomes(q) ==
    /\ waiting_vehicles' = q.waiting_vehicles
    /\ completed_waits' = q.completed_waits
    /\ session_history' = q.session_history
    /\ current_queue_size' = q.current_queue_size
    /\ max_wait_current' = q.max_wait_current
    /\ queue_history' = q.queue_history

\* VideoThread.__init__ and set_queue_active(True); the clock starts at
\* either half of a second.
InitQueue ==
    /\ q_now \in {0, 1}
    /\ q_reported = {}
    /\ QueueIs(NewQueue)
    /\ LineIdle
    /\ CounterIdle
    /\ PipelineIdle
    /\ CaptureIdle
    /\ ExtraIdle

\* One processed frame with queue mode active, dt ticks after the previous
\* one: QueueManager.update is called when the tracker reports any track.
QueueFrame(dt, tracks) ==
    /\ q_now + dt <= MaxTime
    /\ q_now' = q_now + dt
    /\ q_reported' = {t \in Tracks : tracks[t] # "absent"}
    /\ IF \E t \in Tracks : tracks[t] # "absent"
       THEN QueueBecomes(update(QueueState, tracks, q_now + dt))
       ELSE UNCHANGED <<waiting_vehicles, completed_waits, session_history,
                        current_queue_size, max_wait_current, queue_history>>
    /\ UNCHANGED notQueue

NextQueue == \E dt \in QueueSteps, tracks \in QueueFrames : QueueFrame(dt, tracks)

SpecQueue == InitQueue /\ [][NextQueue]_vars

\* C6: every persisted queue event has a wait of at least min_wait_time, and
\* its wait is its exit time minus its entry time, up to the one-second
\* resolution of the two stored times.
C6_WaitIsExitMinusEntry ==
    \A i \in 1..Len(queue_history) :
        LET r == queue_history[i]
            between == TICKS_PER_SEC * (r.exit_time - r.entry_time)
        IN  /\ r.wait_duration_sec >= MIN_WAIT_TIME
            /\ r.wait_duration_sec - between < TICKS_PER_SEC
            /\ between - r.wait_duration_sec < TICKS_PER_SEC

\* C7: after every processed frame, no track that the tracker did not report
\* in that frame is still IN_QUEUE, and waiting_count is 0 after a frame
\* without any track.
C7_GoneIsFinalized ==
    /\ \A t \in Tracks :
          (waiting_vehicles[t].present /\ waiting_vehicles[t].state = "IN_QUEUE")
              => t \in q_reported
    /\ (q_reported = {} => current_queue_size = 0)

\* The values of 'queue_config' tried: the key missing from config.json, a
\* dictionary without min_wait_time (a file written before the key existed,
\* or edited by hand), and a dictionary that sets it to 3 s.
QueueConfigs ==
    {NoQueueConfig,
     [present |-> TRUE, has_min |-> FALSE, min_wait_time |-> 0],
     [present |-> TRUE, has_min |-> TRUE, min_wait_time |-> 6]}

\* Config.load followed by VideoThread.__init__ and set_queue_active(True).
InitMinWait ==
    /\ LaterIdle
    /\ queue_config \in QueueConfigs
    /\ q_now = 0
    /\ q_reported = {}
    /\ QueueIs(NewQueue)
    /\ LineIdle
    /\ CounterIdle
    /\ PipelineIdle
    /\ CaptureIdle
    /\ ZoneIdle
    /\ RoiIdle
    /\ ReconnectIdle
    /\ StoreIdle
    /\ MigrateIdle
    /\ BufferIdle

SpecMinWait == InitMinWait /\ [][NextQueue]_vars

\* C12: a queue event is emitted and persisted only for a wait of at least
\* the effective min_wait_time, which is 5 s whenever queue_config does not
\* set min_wait_time.
C12_MinWaitDefault ==
    LET q_cfg == Config_get_queue_config(queue_config)
        effective == IF q_cfg.has_min THEN q_cfg.min_wait_time ELSE MIN_WAIT_TIME
    IN  /\ \A i \in 1..Len(session_history) :
              session_history[i].wait_duration_sec >= effective
        /\ \A i \in 1..Len(queue_history) :
              queue_history[i].wait_duration_sec >= effective

-----------------------------------------------------------------------------
(***************************************************************************)
(* detector.py: RTSPBufferedCapture, VideoThread.run, process_video, stop  *)
(* and cleanup, as threads in explicit time.  Time is in seconds.  A wait  *)
(* with a timeout holds a timer that Tick counts down; every other step of *)
(* a thread takes no time, except the ones that wait for the network or    *)
(* for the inference: base_capture.read(), the opening of the stream and   *)
(* the processing of a frame end at any time or never.  The stream is      *)
(* taken to open at every attempt.                                         *)
(***************************************************************************)

\* The timeouts of the waits, in seconds.
STOP_WAIT == 5
TERMINATE_WAIT == 2
READER_JOIN == 8
ACTIVE_JOIN == 7
SAFE_READ_TIMEOUT == 6
QUEUE_GET_TIMEOUT == 1
FREEZE_TIMEOUT == 10
FIRST_FRAME_WAIT == 10
RECONNECT_SLEEP == 3
\* buffer_size of the capture that run() constructs.
BUFFER_SIZE == 3

\* Bounds of SpecCapture: capture instances opened, events written.
MaxOpens == 2
MaxWrites == 1

\* Thread.is_alive() of the reader thread.
ReaderAlive == rd_pc \in {"loop", "join"}

\* The two threads that can execute RTSPBufferedCapture.release(): the
\* pipeline thread ("pl", in the finally of run) and the caller of stop()
\* ("ui", in cleanup).
pc(e) == IF e = "pl" THEN pl_pc ELSE ui_pc
timer(e) == IF e = "pl" THEN pl_timer ELSE ui_timer
Goto(e, p, t) ==
    IF e = "pl"
    THEN pl_pc' = p /\ pl_timer' = t /\ UNCHANGED <<ui_pc, ui_timer>>
    ELSE ui_pc' = p /\ ui_timer' = t /\ UNCHANGED <<pl_pc, pl_timer>>

\* ---- The reader thread: RTSPBufferedCapture._read_loop and _safe_base_read.

\* "while self.running" holds: _safe_base_read starts a sub-thread on
\* base_capture.read(), records it in _active_read_thread and joins it.
ReaderSpawn ==
    /\ rd_pc = "loop" /\ cap_running
    /\ rd_pc' = "join"
    /\ rd_timer' = SAFE_READ_TIMEOUT
    /\ active_read_thread' = TRUE
    /\ cur_sub' = "reading"
    /\ orphan_reads' = (orphan_reads \/ cur_sub = "reading")
    /\ UNCHANGED <<cap_running, frame_queue, last_good_frame, last_new_frame_age,
                   first_frame_ready, base_released, released_in_flight>>
    /\ UNCHANGED <<threadVars, stopVars>>
    /\ UNCHANGED notCapture

\* "while self.running" fails: the reader thread ends.
ReaderExit ==
    /\ rd_pc = "loop" /\ ~cap_running
    /\ rd_pc' = "dead"
    /\ UNCHANGED <<cap_running, rd_timer, active_read_thread, cur_sub, orphan_reads,
                   frame_queue, last_good_frame, last_new_frame_age,
                   first_frame_ready, base_released, released_in_flight>>
    /\ UNCHANGED <<threadVars, stopVars>>
    /\ UNCHANGED notCapture

\* frame_queue after put_nowait, the oldest frame dropped when it was full.
put_frame(n) == IF n >= BUFFER_SIZE THEN BUFFER_SIZE ELSE n + 1

\* t.join(timeout=6.0) ends, by the end of the sub-thread or by the timeout:
\* _active_read_thread is cleared, and the loop goes on with the result.
ReaderJoined ==
    /\ rd_pc = "join"
    /\ cur_sub # "reading" \/ rd_timer = 0
    /\ active_read_thread' = FALSE
    /\ rd_timer' = 0
    /\ cur_sub' = IF cur_sub = "reading" THEN "reading" ELSE "none"
    /\ IF ~cap_running
       THEN /\ rd_pc' = "dead"
            /\ UNCHANGED <<frame_queue, first_frame_ready>>
       ELSE /\ rd_pc' = "loop"
            /\ IF cur_sub = "ok"
               THEN /\ frame_queue' = put_frame(frame_queue)
                    /\ first_frame_ready' = TRUE
               ELSE UNCHANGED <<frame_queue, first_frame_ready>>
    /\ UNCHANGED <<cap_running, orphan_reads, last_good_frame, last_new_frame_age,
                   base_released, released_in_flight>>
    /\ UNCHANGED <<threadVars, stopVars>>
    /\ UNCHANGED notCapture

\* base_capture.read() returns in the latest sub-thread, with a frame or not.
NativeReturn(ret) ==
    /\ cur_sub = "reading"
    /\ cur_sub' = IF rd_pc = "join" THEN (IF ret THEN "ok" ELSE "fail") ELSE "none"
    /\ UNCHANGED <<cap_running, rd_pc, rd_timer, active_read_thread, orphan_reads,
                   frame_queue, last_good_frame, last_new_frame_age,
                   first_frame_ready, base_released, released_in_flight>>
    /\ UNCHANGED <<threadVars, stopVars>>
    /\ UNCHANGED notCapture

\* base_capture.read() has returned in every earlier sub-thread.
OrphanReturn ==
    /\ orphan_reads
    /\ orphan_reads' = FALSE
    /\ UNCHANGED <<cap_running, rd_pc, rd_timer, active_read_thread, cur_sub,
                   frame_queue, last_good_frame, last_new_frame_age,
                   first_frame_ready, base_released, released_in_flight>>
    /\ UNCHANGED <<threadVars, stopVars>>
    /\ UNCHANGED notCapture

\* ---- RTSPBufferedCapture.release(), executed by the thread e.

\* self.running = False, and the join of the reader thread when it is alive.
ReleaseBegin(e) ==
    /\ pc(e) = "release"
    /\ cap_running' = FALSE
    /\ IF ReaderAlive THEN Goto(e, "rel_join_reader", READER_JOIN)
       ELSE Goto(e, "rel_active", 0)
    /\ UNCHANGED <<rd_pc, rd_timer, active_read_thread, cur_sub, orphan_reads,
                   frame_queue, last_good_frame, last_new_frame_age,
                   first_frame_ready, base_released, released_in_flight>>
    /\ UNCHANGED <<running, stop_requested, self_cap, n_opens, n_events, cap_failed,
                   stop_elapsed, terminated>>
    /\ UNCHANGED notCapture

\* A join of release() ends, by the end of the thread joined or by its
\* timeout: self.thread.join(timeout=8.0), then active.join(timeout=7.0).
ReleaseJoined(e) ==
    /\ \/ pc(e) = "rel_join_reader" /\ (~ReaderAlive \/ timer(e) = 0)
       \/ pc(e) = "rel_join_active" /\ (cur_sub # "reading" \/ timer(e) = 0)
    /\ Goto(e, IF pc(e) = "rel_join_reader" THEN "rel_active" ELSE "rel_base", 0)
    /\ UNCHANGED <<captureVars, running, stop_requested, self_cap, n_opens, n_events,
                   cap_failed, stop_elapsed, terminated>>
    /\ UNCHANGED notCapture

\* active = self._active_read_thread, and its join when it is alive.
ReleaseReadActive(e) ==
    /\ pc(e) = "rel_active"
    /\ IF active_read_thread /\ cur_sub = "reading"
       THEN Goto(e, "rel_join_active", ACTIVE_JOIN)
       ELSE Goto(e, "rel_base", 0)
    /\ UNCHANGED <<captureVars, running, stop_requested, self_cap, n_opens, n_events,
                   cap_failed, stop_elapsed, terminated>>
    /\ UNCHANGED notCapture

\* Whether some sub-thread is inside base_capture.read().
ReadInFlight == cur_sub = "reading" \/ orphan_reads

\* self.base_capture.release(); release() returns to run() or to cleanup().
ReleaseBase(e) ==
    /\ pc(e) = "rel_base"
    /\ base_released' = TRUE
    /\ released_in_flight' = (released_in_flight \/ ReadInFlight)
    /\ Goto(e, IF e = "pl" THEN "top" ELSE "save", 0)
    /\ UNCHANGED <<cap_running, rd_pc, rd_timer, active_read_thread, cur_sub,
                   orphan_reads, frame_queue, last_good_frame, last_new_frame_age,
                   first_frame_ready>>
    /\ UNCHANGED <<running, stop_requested, self_cap, n_opens, n_events, cap_failed,
                   stop_elapsed, terminated>>
    /\ UNCHANGED notCapture

\* ---- The pipeline thread: VideoThread.run and process_video.

\* "while self.running" of run().
PlTop ==
    /\ pl_pc = "top"
    /\ pl_pc' = IF running THEN "opening" ELSE "done"
    /\ UNCHANGED <<running, stop_requested, self_cap, pl_timer, n_opens, n_events,
                   cap_failed>>
    /\ UNCHANGED <<captureVars, stopVars>>
    /\ UNCHANGED notCapture

\* RTSPBufferedCapture(rtsp_url, ...): the stream is opened, a new capture
\* starts its reader thread, and the constructor waits for the first frame.
PlOpen ==
    /\ pl_pc = "opening"
    /\ n_opens < MaxOpens
    /\ n_opens' = n_opens + 1
    /\ cap_failed' = "none"
    /\ pl_pc' = "wait_first"
    /\ pl_timer' = FIRST_FRAME_WAIT
    /\ cap_running' = TRUE
    /\ rd_pc' = "loop"
    /\ rd_timer' = 0
    /\ active_read_thread' = FALSE
    /\ cur_sub' = "none"
    /\ orphan_reads' = FALSE
    /\ frame_queue' = 0
    /\ last_good_frame' = FALSE
    /\ last_new_frame_age' = Absent
    /\ first_frame_ready' = FALSE
    /\ base_released' = FALSE
    /\ UNCHANGED <<running, stop_requested, self_cap, n_events, released_in_flight>>
    /\ UNCHANGED stopVars
    /\ UNCHANGED notCapture

\* The wait for the first frame ends (frame, stop request or 10 s), the
\* capture is open: self.cap = cap_local and process_video() is entered.
PlFirstFrame ==
    /\ pl_pc = "wait_first"
    /\ first_frame_ready \/ stop_requested \/ pl_timer = 0
    /\ self_cap' = TRUE
    /\ pl_pc' = "pv_top"
    /\ pl_timer' = 0
    /\ UNCHANGED <<running, stop_requested, n_opens, n_events, cap_failed>>
    /\ UNCHANGED <<captureVars, stopVars>>
    /\ UNCHANGED notCapture

\* "while self.running" of process_video(), and the call of self.cap.read().
PlPvTop ==
    /\ pl_pc = "pv_top"
    /\ IF running
       THEN pl_pc' = "read" /\ pl_timer' = QUEUE_GET_TIMEOUT
       ELSE pl_pc' = "after_pv" /\ pl_timer' = 0
    /\ UNCHANGED <<running, stop_requested, self_cap, n_opens, n_events, cap_failed>>
    /\ UNCHANGED <<captureVars, stopVars>>
    /\ UNCHANGED notCapture

\* A process_video that goes on with the frame processing whatever read()
\* returned.
after_read_ignores_ret(ret) == "process"

\* "if not ret or frame is None: break".
after_read(ret) == IF ret THEN "process" ELSE "after_pv"

\* read(): frame_queue.get(timeout=1.0) returns a frame.
PlReadFrame ==
    /\ pl_pc = "read"
    /\ frame_queue > 0
    /\ frame_queue' = frame_queue - 1
    /\ last_new_frame_age' = 0
    /\ last_good_frame' = TRUE
    /\ pl_pc' = after_read(TRUE)
    /\ pl_timer' = 0
    /\ UNCHANGED <<cap_running, rd_pc, rd_timer, active_read_thread, cur_sub,
                   orphan_reads, first_frame_ready, base_released, released_in_flight>>
    /\ UNCHANGED <<running, stop_requested, self_cap, n_opens, n_events, cap_failed>>
    /\ UNCHANGED stopVars
    /\ UNCHANGED notCapture

\* A read() that never reports the freeze.
frozen_never(age) == FALSE

\* "if self.last_new_frame_time > 0: elapsed = time.time() -
\* self.last_new_frame_time; if elapsed > self.FREEZE_TIMEOUT", on the time
\* since last_new_frame_time (Absent while it is 0.0).
frozen(age) == age # Absent /\ age > FREEZE_TIMEOUT

\* read(): queue.Empty after 1 s. The failure is reported when the last real
\* frame is older than FREEZE_TIMEOUT or when there never was a frame; else
\* a copy of last_good_frame is returned.
PlReadEmpty ==
    /\ pl_pc = "read"
    /\ frame_queue = 0 /\ pl_timer = 0
    /\ IF frozen(last_new_frame_age)
       THEN cap_failed' = "freeze" /\ pl_pc' = after_read(FALSE)
       ELSE IF last_good_frame
       THEN cap_failed' = cap_failed /\ pl_pc' = after_read(TRUE)
       ELSE cap_failed' = "no_frame" /\ pl_pc' = after_read(FALSE)
    /\ UNCHANGED <<running, stop_requested, self_cap, pl_timer, n_opens, n_events>>
    /\ UNCHANGED <<captureVars, stopVars>>
    /\ UNCHANGED notCapture

\* Steps 2 to 12 of process_video for one frame: the frame is processed, and
\* an event (counter.adicionar or QueueManager._finalize_vehicle) is written
\* or not.
PlProcess(write) ==
    /\ pl_pc = "process"
    /\ write => n_events < MaxWrites
    /\ n_events' = IF write THEN n_events + 1 ELSE n_events
    /\ pl_pc' = "pv_top"
    /\ UNCHANGED <<running, stop_requested, self_cap, pl_timer, n_opens, cap_failed>>
    /\ UNCHANGED <<captureVars, stopVars>>
    /\ UNCHANGED notCapture

\* process_video() returned: the interruptible sleep of 3 s when still running.
PlAfterPv ==
    /\ pl_pc = "after_pv"
    /\ IF running
       THEN pl_pc' = "sleep" /\ pl_timer' = RECONNECT_SLEEP
       ELSE pl_pc' = "finally" /\ pl_timer' = 0
    /\ UNCHANGED <<running, stop_requested, self_cap, n_opens, n_events, cap_failed>>
    /\ UNCHANGED <<captureVars, stopVars>>
    /\ UNCHANGED notCapture

\* The sleep ends, by its time or by self.running = False.
PlSleepDone ==
    /\ pl_pc = "sleep"
    /\ ~running \/ pl_timer = 0
    /\ pl_pc' = "finally"
    /\ pl_timer' = 0
    /\ UNCHANGED <<running, stop_requested, self_cap, n_opens, n_events, cap_failed>>
    /\ UNCHANGED <<captureVars, stopVars>>
    /\ UNCHANGED notCapture

\* finally: self.cap = None, then cap_local.release().
PlFinally ==
    /\ pl_pc = "finally"
    /\ self_cap' = FALSE
    /\ pl_pc' = "release"
    /\ UNCHANGED <<running, stop_requested, pl_timer, n_opens, n_events, cap_failed>>
    /\ UNCHANGED <<captureVars, stopVars>>
    /\ UNCHANGED notCapture

\* ---- The caller of VideoThread.stop().

\* stop(): self.running = False, the stop event is set, and wait(5000).
StopCall ==
    /\ ui_pc = "idle"
    /\ running' = FALSE
    /\ stop_requested' = TRUE
    /\ ui_pc' = "wait5"
    /\ ui_timer' = STOP_WAIT
    /\ stop_elapsed' = 0
    /\ UNCHANGED <<self_cap, pl_pc, pl_timer, n_opens, n_events, cap_failed,
                   terminated>>
    /\ UNCHANGED captureVars
    /\ UNCHANGED notCapture

\* wait(5000) returns True: run() has returned.
StopWaited ==
    /\ ui_pc = "wait5"
    /\ pl_pc = "done"
    /\ ui_pc' = "cleanup"
    /\ ui_timer' = 0
    /\ UNCHANGED <<stop_elapsed, terminated>>
    /\ UNCHANGED <<threadVars, captureVars>>
    /\ UNCHANGED notCapture

\* wait(5000) returns False: self.terminate(), which ends the pipeline
\* thread where it is, and wait(2000).
StopTerminate ==
    /\ ui_pc = "wait5"
    /\ pl_pc # "done" /\ ui_timer = 0
    /\ terminated' = TRUE
    /\ pl_pc' = "killed"
    /\ pl_timer' = 0
    /\ ui_pc' = "wait2"
    /\ ui_timer' = TERMINATE_WAIT
    /\ UNCHANGED <<running, stop_requested, self_cap, n_opens, n_events, cap_failed,
                   stop_elapsed>>
    /\ UNCHANGED captureVars
    /\ UNCHANGED notCapture

\* wait(2000) returns: the thread has ended.
StopWaitedAgain ==
    /\ ui_pc = "wait2"
    /\ pl_pc \in {"done", "killed"} \/ ui_timer = 0
    /\ ui_pc' = "cleanup"
    /\ ui_timer' = 0
    /\ UNCHANGED <<stop_elapsed, terminated>>
    /\ UNCHANGED <<threadVars, captureVars>>
    /\ UNCHANGED notCapture

\* cleanup(): "if self.cap: self.cap.release()".
Cleanup ==
    /\ ui_pc = "cleanup"
    /\ ui_pc' = IF self_cap THEN "release" ELSE "save"
    /\ UNCHANGED <<ui_timer, stop_elapsed, terminated>>
    /\ UNCHANGED <<threadVars, captureVars>>
    /\ UNCHANGED notCapture

\* cleanup(): counter.save_to_database() and _queue_db.close(); stop() returns.
CleanupSave ==
    /\ ui_pc = "save"
    /\ ui_pc' = "returned"
    /\ UNCHANGED <<ui_timer, stop_elapsed, terminated>>
    /\ UNCHANGED <<threadVars, captureVars>>
    /\ UNCHANGED notCapture

\* ---- Time.

\* The thread e is in a join of release() that has neither ended nor timed out.
JoinWaiting(e) ==
    \/ pc(e) = "rel_join_reader" /\ ReaderAlive /\ timer(e) > 0
    \/ pc(e) = "rel_join_active" /\ cur_sub = "reading" /\ timer(e) > 0

\* The pipeline thread has no step to take now.
PlWaiting ==
    \/ pl_pc \in {"opening", "process", "done", "killed"}
    \/ pl_pc = "wait_first" /\ ~first_frame_ready /\ ~stop_requested /\ pl_timer > 0
    \/ pl_pc = "read" /\ frame_queue = 0 /\ pl_timer > 0
    \/ pl_pc = "sleep" /\ running /\ pl_timer > 0
    \/ JoinWaiting("pl")

\* The reader thread has no step to take now.
RdWaiting ==
    \/ rd_pc \in {"none", "dead"}
    \/ rd_pc = "join" /\ cur_sub = "reading" /\ rd_timer > 0

\* The caller of stop() has no step to take now.
UiWaiting ==
    \/ ui_pc \in {"idle", "returned"}
    \/ ui_pc = "wait5" /\ pl_pc # "done" /\ ui_timer > 0
    \/ JoinWaiting("ui")

down(t) == IF t > 0 THEN t - 1 ELSE 0

\* One second passes while every thread waits.
Tick ==
    /\ PlWaiting /\ RdWaiting /\ UiWaiting
    /\ pl_timer' = down(pl_timer)
    /\ rd_timer' = down(rd_timer)
    /\ ui_timer' = down(ui_timer)
    /\ last_new_frame_age' = aged(last_new_frame_age, 1, FREEZE_TIMEOUT + 1)
    /\ stop_elapsed' = IF ui_pc \in {"idle", "returned"} THEN stop_elapsed
                       ELSE aged(stop_elapsed, 1, STOP_WAIT + 1)
    /\ UNCHANGED <<running, stop_requested, self_cap, pl_pc, n_opens, n_events,
                   cap_failed>>
    /\ UNCHANGED <<cap_running, rd_pc, active_read_thread, cur_sub, orphan_reads,
                   frame_queue, last_good_frame, first_frame_ready, base_released,
                   released_in_flight>>
    /\ UNCHANGED <<ui_pc, terminated>>
    /\ UNCHANGED notCapture

\* VideoThread.start(): run() has set self.running and loaded the model.
InitCapture ==
    /\ running = TRUE
    /\ stop_requested = FALSE
    /\ self_cap = FALSE
    /\ pl_pc = "top"
    /\ pl_timer = 0
    /\ n_opens = 0
    /\ n_events = 0
    /\ cap_failed = "none"
    /\ NoCapture
    /\ ui_pc = "idle"
    /\ ui_timer = 0
    /\ stop_elapsed = 0
    /\ terminated = FALSE
    /\ LineIdle
    /\ CounterIdle
    /\ PipelineIdle
    /\ QueueIdle
    /\ ExtraIdle

NextCapture ==
    \/ ReaderSpawn
    \/ ReaderExit
    \/ ReaderJoined
    \/ \E ret \in BOOLEAN : NativeReturn(ret)
    \/ OrphanReturn
    \/ \E e \in {"pl", "ui"} : ReleaseBegin(e)
    \/ \E e \in {"pl", "ui"} : ReleaseJoined(e)
    \/ \E e \in {"pl", "ui"} : ReleaseReadActive(e)
    \/ \E e \in {"pl", "ui"} : ReleaseBase(e)
    \/ PlTop
    \/ PlOpen
    \/ PlFirstFrame
    \/ PlPvTop
    \/ PlReadFrame
    \/ PlReadEmpty
    \/ \E write \in BOOLEAN : PlProcess(write)
    \/ PlAfterPv
    \/ PlSleepDone
    \/ PlFinally
    \/ StopCall
    \/ StopWaited
    \/ StopTerminate
    \/ StopWaitedAgain
    \/ Cleanup
    \/ CleanupSave
    \/ Tick

SpecCapture == InitCapture /\ [][NextCapture]_vars

\* C2: base_capture.release() is never called while a base_capture.read()
\* started by the reader has not returned.
C2_NoReleaseDuringRead == ~released_in_flight

\* C3: stop() has returned 5 s after it was called, at the latest.
C3_StopWithinFiveSeconds == stop_elapsed <= STOP_WAIT

\* C4: stop() never calls terminate() on the pipeline thread.
C4_NeverTerminates == ~terminated

\* C8: once read() has reported a failure for a capture (the freeze, or no
\* frame at all), no event is written until a new capture is opened.
C8_NoEventWhileFrozen == [][cap_failed # "none" => n_events' = n_events]_vars

\* Witness of C8: the freeze was reported after an event had been written,
\* and the pipeline thread has released the capture and is about to open a
\* new one.
C8_Witness ==
    /\ cap_failed = "freeze"
    /\ n_events = 1
    /\ base_released
    /\ pl_pc = "opening"

-----------------------------------------------------------------------------
(***************************************************************************)
(* detector.py: read() of RTSPBufferedCapture (285-299) called by          *)
(* process_video while _read_loop (254-283) puts the frames it decodes,    *)
(* with the time since the last put recorded. Time is in seconds.          *)
(***************************************************************************)

notRead == <<lineVars, counterVars, trackVars, queueVars, secondVars, lockVars,
            dirVars, debounceVars, fourthVars>>

\* run() has opened a capture and calls process_video; _read_loop has put no
\* frame yet.
InitRead ==
    /\ FourthIdle
    /\ running = TRUE
    /\ stop_requested = FALSE
    /\ self_cap = TRUE
    /\ pl_pc = "pv_top"
    /\ pl_timer = 0
    /\ n_opens = 1
    /\ n_events = 0
    /\ cap_failed = "none"
    /\ cap_running = TRUE
    /\ rd_pc = "loop"
    /\ rd_timer = 0
    /\ active_read_thread = FALSE
    /\ cur_sub = "none"
    /\ orphan_reads = FALSE
    /\ frame_queue = 0
    /\ last_good_frame = FALSE
    /\ last_new_frame_age = Absent
    /\ first_frame_ready = FALSE
    /\ base_released = FALSE
    /\ released_in_flight = FALSE
    /\ ui_pc = "idle"
    /\ ui_timer = 0
    /\ stop_elapsed = 0
    /\ terminated = FALSE
    /\ last_put_age = Absent
    /\ LineIdle
    /\ CounterIdle
    /\ PipelineIdle
    /\ QueueIdle
    /\ SecondIdle
    /\ LocksIdle
    /\ DirectionIdle
    /\ DebounceIdle

\* One iteration of _read_loop that got a frame: the oldest frame is dropped
\* when the queue is full, the frame is put, first_frame_ready is set.
RdPut ==
    /\ pl_pc # "after_pv"
    /\ frame_queue' = put_frame(frame_queue)
    /\ first_frame_ready' = TRUE
    /\ last_put_age' = 0
    /\ UNCHANGED <<cap_running, rd_pc, rd_timer, active_read_thread, cur_sub,
                   orphan_reads, last_good_frame, last_new_frame_age, base_released,
                   released_in_flight>>
    /\ UNCHANGED <<threadVars, stopVars>>
    /\ UNCHANGED notRead

\* One second passes: in the frame processing of process_video, or in
\* frame_queue.get(timeout=1.0) on an empty queue.
RdTick ==
    /\ \/ pl_pc = "process"
       \/ pl_pc = "read" /\ frame_queue = 0 /\ pl_timer > 0
    /\ pl_timer' = down(pl_timer)
    /\ last_new_frame_age' = aged(last_new_frame_age, 1, FREEZE_TIMEOUT + 1)
    /\ last_put_age' = aged(last_put_age, 1, FREEZE_TIMEOUT + 1)
    /\ UNCHANGED <<running, stop_requested, self_cap, pl_pc, n_opens, n_events,
                   cap_failed>>
    /\ UNCHANGED <<cap_running, rd_pc, rd_timer, active_read_thread, cur_sub,
                   orphan_reads, frame_queue, last_good_frame, first_frame_ready,
                   base_released, released_in_flight>>
    /\ UNCHANGED stopVars
    /\ UNCHANGED notRead

NextRead ==
    \/ PlPvTop
    \/ PlReadFrame
    \/ PlReadEmpty
    \/ PlProcess(FALSE)
    \/ RdPut
    \/ RdTick

SpecRead == InitRead /\ [][NextRead]_vars

\* The step in which read() returns from queue.Empty, and what it returns.
\* An age is Absent (-1), hence not above FREEZE_TIMEOUT, when there was no
\* frame.
ReadEmptyStep == pl_pc = "read" /\ frame_queue = 0 /\ pl_timer = 0 /\ pl_pc' # "read"
ReturnsFreeze == pl_pc' = "after_pv" /\ cap_failed' = "freeze"
ReturnsNoData == pl_pc' = "after_pv" /\ cap_failed' = "no_frame"
ReturnsLastGood == pl_pc' = "process" /\ cap_failed' = cap_failed

-----------------------------------------------------------------------------
(***************************************************************************)
(* detector.py: the zone branch of process_video (741-760) for one track,  *)
(* frame by frame, with the time between the last two frames recorded.     *)
(***************************************************************************)

\* The times tried between two frames: 0.2 s and the cooldown itself.
ZoneSteps == {1, ZONE_COOLDOWN}

\* What the tracker reports for the track in one frame.
ZoneInputs ==
    {NotReported, [here |-> TRUE, label |-> "person", x |-> 10, y |-> 15]}
        \cup {Car(p) : p \in Points}

\* VideoThread.__init__ with counting_mode 'zone', a camera URL and an empty
\* store.
InitZone ==
    /\ LaterIdle
    /\ config = [DefaultConfig EXCEPT !.counting_mode = "zone"]
    /\ TrackStateIs(NoTrackState)
    /\ count_events = NoEvents
    /\ life_events = NoEvents
    /\ counter = NewCounter("cam1", ZeroCounters)
    /\ database = EmptyDatabase
    /\ ui_counters = ZeroCounters
    /\ saved = [u \in Urls |-> NoSnap]
    /\ frame_dt = 0
    /\ QueueConfigIdle
    /\ RoiIdle
    /\ ReconnectIdle
    /\ StoreIdle
    /\ MigrateIdle
    /\ BufferIdle
    /\ LineIdle
    /\ QueueIdle
    /\ CaptureIdle

\* One processed frame in which the tracker reports at most track 1, dt
\* ticks after the previous frame.
ZoneFrame(dt, inp) ==
    /\ Len(database.historico_v2) < MaxEvents
    /\ LET tracks == [t \in Tracks |-> IF t = 1 THEN inp ELSE NotReported]
           st == process_frame(PipelineState, config, dt, tracks)
       IN  /\ PipelineBecomes(st)
           /\ ui_counters' = st.counter.contadores
    /\ frame_dt' = dt
    /\ UNCHANGED <<config, saved>>
    /\ UNCHANGED notZone

NextZone == \E dt \in ZoneSteps, inp \in ZoneInputs : ZoneFrame(dt, inp)

SpecZone == InitZone /\ [][NextZone]_vars

\* The track entered a zone in the step: its zone is 'down' or 'up' and is
\* not the zone it had.
ZoneChanged ==
    /\ track_last_zone'[1] \in {"down", "up"}
    /\ track_last_zone'[1] # track_last_zone[1]

-----------------------------------------------------------------------------
(***************************************************************************)
(* detector.py: VideoThread.apply_roi_crop.  The frame is given by its     *)
(* shape (h, w); the value returned is the slice frame[y_start:y_end,      *)
(* x_start:x_end] with its offsets.  Percents are integers, as the sliders *)
(* of the settings tab write them; int() of a non-negative quotient is the *)
(* integer division.                                                       *)
(***************************************************************************)

MIN_SIDE == 32
MAX_PERCENT == 50

\* The clamp without its bounds.
roi_clamp_none(p) == p

\* max(0, min(50, p)).
roi_clamp(p) ==
    LET m == IF p < MAX_PERCENT THEN p ELSE MAX_PERCENT
    IN  IF m > 0 THEN m ELSE 0

\* One axis of apply_roi_crop: the slice of an axis of length n with the
\* percents lo and hi cut from its two ends.
roi_axis(n, lo, hi) ==
    LET start == (n * roi_clamp(lo)) \div 100
        end == (n * (100 - roi_clamp(hi))) \div 100
    IN  IF end <= start \/ (end - start) < MIN_SIDE
        THEN <<0, n>> ELSE <<start, end>>

apply_roi_crop(in) ==
    IF ~in.use_roi
    THEN [done |-> TRUE, y_start |-> 0, y_end |-> in.h, x_start |-> 0, x_end |-> in.w]
    ELSE LET ys == roi_axis(in.h, in.top_percent, in.bottom_percent)
             xs == roi_axis(in.w, in.left_percent, in.right_percent)
         IN  [done |-> TRUE, y_start |-> ys[1], y_end |-> ys[2],
              x_start |-> xs[1], x_end |-> xs[2]]

\* Bound of SpecRoi: the largest frame side tried.
MaxSide == 100

\* The frame sides and the percents tried: sides below, at and above 32 px,
\* percents below, inside and above [0, 50].
Sides == {20, 32, 33, 64, MaxSide}
Percents == {-5, 0, 10, 45, 50, 60}

RoiInputs ==
    [use_roi : BOOLEAN, h : Sides, w : {32, MaxSide},
     top_percent : Percents, bottom_percent : Percents,
     left_percent : {0, 10, 60}, right_percent : {0, 50}]

InitRoi ==
    /\ LaterIdle
    /\ roi_in \in RoiInputs
    /\ roi_out = NoCrop
    /\ LineIdle
    /\ CounterIdle
    /\ PipelineIdle
    /\ QueueIdle
    /\ CaptureIdle
    /\ ZoneIdle
    /\ QueueConfigIdle
    /\ ReconnectIdle
    /\ StoreIdle
    /\ MigrateIdle
    /\ BufferIdle

\* The call apply_roi_crop(frame).
CropStep ==
    /\ ~roi_out.done
    /\ roi_out' = apply_roi_crop(roi_in)
    /\ UNCHANGED roi_in
    /\ UNCHANGED notRoi

NextRoi == CropStep

SpecRoi == InitRoi /\ [][NextRoi]_vars

\* A percent brought into [0, 50].
InRange(p) == IF p < 0 THEN 0 ELSE IF p > 50 THEN 50 ELSE p

\* The same call with every percent replaced by the one it is to behave as.
RoiInRange ==
    [roi_in EXCEPT !.top_percent = InRange(@), !.bottom_percent = InRange(@),
                   !.left_percent = InRange(@), !.right_percent = InRange(@)]

\* What an axis of length n returns for percents lo and hi already in
\* [0, 50]: the cut, or the whole axis when the cut is narrower than 32 px.
CutOrWhole(n, lo, hi, start, end) ==
    LET s == (n * lo) \div 100
        e == (n * (100 - hi)) \div 100
    IN  IF e - s >= 32 THEN start = s /\ end = e ELSE start = 0 /\ end = n

\* C13 as stated: every percent behaves as its value clamped to [0, 50], and
\* for every frame size the returned rectangle is at least 32 px on each axis.
C13_AsStated ==
    (roi_out.done /\ roi_in.use_roi) =>
        /\ roi_out = apply_roi_crop(RoiInRange)
        /\ roi_out.y_end - roi_out.y_start >= 32
        /\ roi_out.x_end - roi_out.x_start >= 32

\* C13 amended: every percent behaves as its value clamped to [0, 50]; on
\* each axis the returned rectangle is the cut when the cut is at least 32 px
\* and the whole axis otherwise, so it is at least 32 px on every axis on
\* which the frame itself is at least 32 px, and the whole axis on an axis
\* on which the frame is smaller.
C13_AtLeast32OrWhole ==
    (roi_out.done /\ roi_in.use_roi) =>
        /\ roi_out = apply_roi_crop(RoiInRange)
        /\ CutOrWhole(roi_in.h, InRange(roi_in.top_percent),
                      InRange(roi_in.bottom_percent), roi_out.y_start, roi_out.y_end)
        /\ CutOrWhole(roi_in.w, InRange(roi_in.left_percent),
                      InRange(roi_in.right_percent), roi_out.x_start, roi_out.x_end)
        /\ roi_in.h >= 32 => roi_out.y_end - roi_out.y_start >= 32
        /\ roi_in.w >= 32 => roi_out.x_end - roi_out.x_start >= 32
        /\ roi_in.h < 32 => (roi_out.y_start = 0 /\ roi_out.y_end = roi_in.h)
        /\ roi_in.w < 32 => (roi_out.x_start = 0 /\ roi_out.x_end = roi_in.w)

\* Witness of C13: a request of 60 percent at the top of a 100 px axis cut
\* as 50 percent, with the other axis, whose cut would be 28 px, whole.
C13_Witness ==
    /\ roi_out.done /\ roi_in.use_roi
    /\ roi_in.h = 100 /\ roi_in.top_percent = 60 /\ roi_in.bottom_percent = 0
    /\ roi_out.y_start = 50 /\ roi_out.y_end = 100
    /\ roi_in.w = 32 /\ roi_in.left_percent = 10 /\ roi_in.right_percent = 0
    /\ roi_out.x_start = 0 /\ roi_out.x_end = 32

-----------------------------------------------------------------------------
(***************************************************************************)
(* detector.py line 703 with counter.py: the category filter of            *)
(* process_video in front of VehicleCounter.adicionar.  The filter is the  *)
(* list 'categorias' of config.json, which the program reads as it finds   *)
(* it; the names adicionar knows are the keys of categoria_map.            *)
(***************************************************************************)

\* The keys of VehicleCounter.categoria_map.
KnownClasses == {"car", "motorcycle", "moto", "motor", "truck", "bus"}

\* The lists 'categorias' tried: the default one, and the default one with a
\* class of the detector that is not a vehicle class added to it.
CategoriasTried == {Categorias, Categorias \cup {"person"}}

InitCategorias ==
    /\ LaterIdle
    /\ config \in {[DefaultConfig EXCEPT !.counting_mode = "zone", !.categorias = c] :
                      c \in CategoriasTried}
    /\ TrackStateIs(NoTrackState)
    /\ count_events = NoEvents
    /\ life_events = NoEvents
    /\ counter = NewCounter("cam1", ZeroCounters)
    /\ database = EmptyDatabase
    /\ ui_counters = ZeroCounters
    /\ saved = [u \in Urls |-> NoSnap]
    /\ ZoneIdle
    /\ QueueConfigIdle
    /\ RoiIdle
    /\ ReconnectIdle
    /\ StoreIdle
    /\ MigrateIdle
    /\ BufferIdle
    /\ LineIdle
    /\ QueueIdle
    /\ CaptureIdle

SpecCategorias == InitCategorias /\ [][NextZone]_vars

\* C14: a detection whose class name is not one of car, motorcycle, moto,
\* motor, truck, bus is never counted: no count event carries such a class,
\* in memory or in the store, and the counters are the counts of the events
\* of the known classes.
C14_UnknownNeverCounted ==
    /\ \A i \in 1..Len(counter.historico) :
          counter.historico[i].categoria_en \in KnownClasses
    /\ \A d \in Dirs :
          counter.contadores["total"][d] =
              Cardinality({i \in 1..Len(counter.historico) :
                              /\ counter.historico[i].sentido = d
                              /\ counter.historico[i].categoria_en \in KnownClasses})

-----------------------------------------------------------------------------
(***************************************************************************)
(* detector.py: the loop of VideoThread.run with its three interruptible   *)
(* sleeps, and stop() seen from it (running = False).  Time is counted in  *)
(* the time.sleep(0.1) calls that end; opening the stream and              *)
(* process_video end at any time.                                          *)
(***************************************************************************)

MAX_FAST_RETRIES == 5
\* range(50), range(SLOW_RETRY_INTERVAL_S * 10) and range(30).
FAST_SLICES == 50
SLOW_SLICES == 600
AFTER_STREAM_SLICES == 30

\* Bound of SpecReconnect: the consecutive failures tried.
MaxTentativa == 7

\* Every failure waits as a fast one.
retry_slices_fast(n) == FAST_SLICES

\* The length of the sleep after the n-th consecutive failure.
retry_slices(n) == IF n <= MAX_FAST_RETRIES THEN FAST_SLICES ELSE SLOW_SLICES

\* The status after the n-th consecutive failure: 'Offline' is emitted at
\* the first slow retry only and nothing is emitted at the later ones.
retry_status(n, last) ==
    IF n <= MAX_FAST_RETRIES THEN "Reconectando..."
    ELSE IF n = MAX_FAST_RETRIES + 1 THEN "Offline" ELSE last

\* run() entered, the model loaded.
InitReconnect ==
    /\ LaterIdle
    /\ rc_running = TRUE
    /\ rc_pc = "top"
    /\ tentativa = 0
    /\ rc_status = "none"
    /\ rc_wait = "none"
    /\ rc_slices = 0
    /\ rc_waited = 0
    /\ rc_late = 0
    /\ LineIdle
    /\ CounterIdle
    /\ PipelineIdle
    /\ QueueIdle
    /\ CaptureIdle
    /\ ZoneIdle
    /\ QueueConfigIdle
    /\ RoiIdle
    /\ StoreIdle
    /\ MigrateIdle
    /\ BufferIdle

StartWait(kind, n) ==
    /\ rc_pc' = "wait"
    /\ rc_wait' = kind
    /\ rc_slices' = n
    /\ rc_waited' = 0
    /\ rc_late' = 0

\* while self.running:
RcTop ==
    /\ rc_pc = "top"
    /\ rc_pc' = IF rc_running THEN "connect" ELSE "done"
    /\ UNCHANGED <<rc_running, tentativa, rc_status, rc_wait, rc_slices,
                   rc_waited, rc_late>>
    /\ UNCHANGED notReconnect

\* RTSPBufferedCapture(...) opened: tentativa = 0, 'Online', process_video().
RcConnected ==
    /\ rc_pc = "connect"
    /\ rc_pc' = "process_video"
    /\ tentativa' = 0
    /\ rc_status' = "Online"
    /\ UNCHANGED <<rc_running, rc_wait, rc_slices, rc_waited, rc_late>>
    /\ UNCHANGED notReconnect

\* The constructor raised, or isOpened() is false: the except clause is entered.
RcConnectFailed ==
    /\ rc_pc = "connect"
    /\ tentativa < MaxTentativa
    /\ rc_pc' = "except"
    /\ UNCHANGED <<rc_running, tentativa, rc_status, rc_wait, rc_slices,
                   rc_waited, rc_late>>
    /\ UNCHANGED notReconnect

\* except Exception: if self.running: tentativa += 1, the status and the sleep.
RcExcept ==
    /\ rc_pc = "except"
    /\ IF rc_running
       THEN /\ tentativa' = tentativa + 1
            /\ rc_status' = retry_status(tentativa + 1, rc_status)
            /\ StartWait("fail", retry_slices(tentativa + 1))
       ELSE /\ rc_pc' = "finally"
            /\ UNCHANGED <<tentativa, rc_status, rc_wait, rc_slices, rc_waited,
                           rc_late>>
    /\ UNCHANGED rc_running
    /\ UNCHANGED notReconnect

\* process_video() returned: 'Reconectando...' and the 3 s sleep if running.
RcStreamEnded ==
    /\ rc_pc = "process_video"
    /\ IF rc_running
       THEN /\ rc_status' = "Reconectando..."
            /\ StartWait("stream", AFTER_STREAM_SLICES)
       ELSE /\ rc_pc' = "finally"
            /\ UNCHANGED <<rc_status, rc_wait, rc_slices, rc_waited, rc_late>>
    /\ UNCHANGED <<rc_running, tentativa>>
    /\ UNCHANGED notReconnect

\* One iteration of "for _ in range(n)": the loop ends when the range is
\* used up, breaks when running is false, and calls time.sleep(0.1) otherwise.
RcLoop ==
    /\ rc_pc = "wait"
    /\ rc_pc' = IF rc_slices = 0 \/ ~rc_running THEN "finally" ELSE "sleeping"
    /\ UNCHANGED <<rc_running, tentativa, rc_status, rc_wait, rc_slices,
                   rc_waited, rc_late>>
    /\ UNCHANGED notReconnect

\* time.sleep(0.1) returns.
RcSlept ==
    /\ rc_pc = "sleeping"
    /\ rc_pc' = "wait"
    /\ rc_slices' = rc_slices - 1
    /\ rc_waited' = rc_waited + 1
    /\ rc_late' = IF rc_running THEN rc_late ELSE rc_late + 1
    /\ UNCHANGED <<rc_running, tentativa, rc_status, rc_wait>>
    /\ UNCHANGED notReconnect

\* finally: self.cap = None and the release of cap_local.
RcFinally ==
    /\ rc_pc = "finally"
    /\ rc_pc' = "top"
    /\ rc_wait' = "none"
    /\ UNCHANGED <<rc_running, tentativa, rc_status, rc_slices, rc_waited, rc_late>>
    /\ UNCHANGED notReconnect

\* stop(), first statement: self.running = False.
RcStop ==
    /\ rc_running
    /\ rc_running' = FALSE
    /\ UNCHANGED <<rc_pc, tentativa, rc_status, rc_wait, rc_slices, rc_waited,
                   rc_late>>
    /\ UNCHANGED notReconnect

NextReconnect ==
    \/ RcTop
    \/ RcConnected
    \/ RcConnectFailed
    \/ RcExcept
    \/ RcStreamEnded
    \/ RcLoop
    \/ RcSlept
    \/ RcFinally
    \/ RcStop

SpecReconnect == InitReconnect /\ [][NextReconnect]_vars

\* The sleep after a failed connection is about to end or has ended.
InFailWait == rc_wait = "fail" /\ rc_pc \in {"wait", "sleeping", "finally"}

\* C15: while running, each of the first 5 consecutive failed connections is
\* followed by a wait of 50 slices of 100 ms with the status 'Reconectando...'
\* and every later one by a wait of 600 slices with 'Offline' as the last
\* status emitted; the loop of run ends only when running is false; and after
\* stop() at most one slice of a wait still ends.
C15_ReconnectPolicy ==
    /\ [](InFailWait =>
            /\ tentativa >= 1
            /\ tentativa <= 5 =>
                  (rc_status = "Reconectando..." /\ rc_waited + rc_slices = 50)
            /\ tentativa > 5 =>
                  (rc_status = "Offline" /\ rc_waited + rc_slices = 600)
            /\ (rc_pc = "finally" /\ rc_running) => rc_slices = 0)
    /\ [](rc_pc = "done" => ~rc_running)
    /\ [](rc_late <= 1)
    /\ [][(rc_pc = "except" /\ rc_pc' # "except" /\ rc_running)
              => (rc_pc' = "wait" /\ rc_wait' = "fail" /\ tentativa' = tentativa + 1)]_vars
    /\ [][(rc_pc = "connect" /\ rc_running) => rc_pc' # "done"]_vars

\* Witness of C15: the sixth consecutive failure has been waited for 60 s
\* with the status 'Offline', the five before it for 5 s each.
C15_Witness ==
    /\ rc_running
    /\ rc_pc = "finally" /\ rc_wait = "fail"
    /\ tentativa = 6
    /\ rc_status = "Offline"
    /\ rc_waited = 600

-----------------------------------------------------------------------------
(***************************************************************************)
(* database.py and counter.py over the SQLite connection: sqlite3.connect  *)
(* is called without isolation_level, so the connection opens a            *)
(* transaction before the first INSERT or DELETE and keeps it open until   *)
(* conn.commit().  The store is the committed content together with the    *)
(* content the connection sees.  A statement that raises has no effect and *)
(* leaves the transaction as it is: save_counters, add_to_history and      *)
(* flush catch the exception and log it.  Whether the save interval has    *)
(* elapsed when adicionar is called is an input.                           *)
(***************************************************************************)

\* contadores.items() and valores.items(): the order of the INSERTs.
InsertOrder ==
    <<<<"Carros", "ida">>, <<"Carros", "volta">>, <<"Motos", "ida">>,
      <<"Motos", "volta">>, <<"Caminhoes", "ida">>, <<"Caminhoes", "volta">>,
      <<"Onibus", "ida">>, <<"Onibus", "volta">>>>

\* The statements of save_counters, numbered: 1 the DELETE, 2..9 the INSERTs,
\* 10 conn.commit().  0 stands for "no statement raises".
COMMIT_STMT == 10

\* self.conn.commit().
tx_commit(s) == [s EXCEPT !.committed = s.working, !.in_transaction = FALSE]

\* The INSERTs of save_counters without the DELETE before them.
insert_without_delete(db, contadores, rtsp_url, n) ==
    [db EXCEPT !.contadores =
        @ \cup
        {[rtsp_url |-> rtsp_url, categoria |-> InsertOrder[i][1],
          sentido |-> InsertOrder[i][2],
          valor |-> contadores[InsertOrder[i][1]][InsertOrder[i][2]]] : i \in 1..n}]

\* The DELETE of save_counters followed by its first n INSERTs.
delete_and_insert(db, contadores, rtsp_url, n) ==
    [db EXCEPT !.contadores =
        {r \in @ : r.rtsp_url # rtsp_url} \cup
        {[rtsp_url |-> rtsp_url, categoria |-> InsertOrder[i][1],
          sentido |-> InsertOrder[i][2],
          valor |-> contadores[InsertOrder[i][1]][InsertOrder[i][2]]] : i \in 1..n}]

\* CounterDatabase.save_counters in which statement fail_at raises.
tx_save_counters(s, contadores, rtsp_url, fail_at) ==
    IF fail_at = 1 THEN s
    ELSE LET n == IF fail_at \in {0, COMMIT_STMT} THEN Len(InsertOrder) ELSE fail_at - 2
             s1 == [s EXCEPT !.working = delete_and_insert(@, contadores, rtsp_url, n),
                             !.in_transaction = TRUE]
         IN  IF fail_at = 0 THEN tx_commit(s1) ELSE s1

\* CounterDatabase.flush: conn.commit(), which may raise, and the checkpoint.
tx_flush(s, raises) == IF raises THEN s ELSE tx_commit(s)

\* VehicleCounter.save_to_database: save_counters, then flush.
tx_save_to_database(s, contadores, rtsp_url, fail_at, flush_raises) ==
    tx_flush(tx_save_counters(s, contadores, rtsp_url, fail_at), flush_raises)

\* CounterDatabase._get_camera_id: a new camera is inserted and committed.
tx_get_camera_id(s, rtsp_url) ==
    IF rtsp_url \in s.working.cameras THEN s
    ELSE tx_commit([s EXCEPT !.working = get_camera_id(@, rtsp_url),
                            !.in_transaction = TRUE])

\* CounterDatabase.add_to_history: the INSERT is not followed by a commit.
tx_add_to_history(s, categoria_en, categoria, sentido, rtsp_url) ==
    IF rtsp_url = "" THEN s
    ELSE LET s1 == tx_get_camera_id(s, rtsp_url)
         IN  [s1 EXCEPT !.working = add_to_history(@, categoria_en, categoria,
                                                   sentido, rtsp_url),
                        !.in_transaction = TRUE]

\* cleanup without the save of the counters.
cleanup_without_save(s, contadores, rtsp_url, fail_at, flush_raises) == s

\* VideoThread.cleanup: the save of the counters (the capture is released
\* before it and the queue store closed after it).
cleanup(s, contadores, rtsp_url, fail_at, flush_raises) ==
    tx_save_to_database(s, contadores, rtsp_url, fail_at, flush_raises)

\* Bound of SpecStore: the vehicles counted.
MaxStoreEvents == 2

\* The statements tried as the one that raises: none, the DELETE, the first
\* INSERT, an INSERT in the middle, the commit.
FailPoints == {0, 1, 2, 5, COMMIT_STMT}

\* The camera of the counter.
StoreUrl == "cam1"

StoreState ==
    [committed |-> tx_committed, working |-> tx_working,
     in_transaction |-> in_transaction]

\* The counter rows of the camera, as contadores without 'total'.
RowsOf(db) == {r \in db.contadores : r.rtsp_url = StoreUrl}

WholeSnapshot(db) ==
    \A c \in Cats, d \in Dirs :
        Cardinality({r \in RowsOf(db) : r.categoria = c /\ r.sentido = d}) = 1

StoreBecomes(s) ==
    /\ tx_committed' = s.committed
    /\ tx_working' = s.working
    /\ in_transaction' = s.in_transaction
    /\ snapshot_committed' = (snapshot_committed \/ WholeSnapshot(s.committed))

\* CounterDatabase() on a new file and VehicleCounter(database, rtsp_url),
\* the pipeline thread started.
InitStore ==
    /\ LaterIdle
    /\ tx_committed = EmptyDatabase
    /\ tx_working = EmptyDatabase
    /\ in_transaction = FALSE
    /\ mem_contadores = ZeroCounters
    /\ st_thread = "running"
    /\ st_stop = "none"
    /\ snapshot_committed = FALSE
    /\ cleanup_failed = FALSE
    /\ pending_at_stop = FALSE
    /\ LineIdle
    /\ CounterIdle
    /\ PipelineIdle
    /\ QueueIdle
    /\ CaptureIdle
    /\ ZoneIdle
    /\ QueueConfigIdle
    /\ RoiIdle
    /\ ReconnectIdle
    /\ MigrateIdle
    /\ BufferIdle

\* VehicleCounter.adicionar(categoria_en, sentido) by the pipeline thread:
\* the increments, save_to_database when the interval has elapsed (due),
\* add_to_history.
StAdicionar(categoria_en, sentido, due, fail_at, flush_raises) ==
    /\ st_thread = "running"
    /\ mem_contadores["total"]["ida"] + mem_contadores["total"]["volta"] < MaxStoreEvents
    /\ (~due => (fail_at = 0 /\ ~flush_raises))
    /\ LET categoria == categoria_map(categoria_en)
           contadores == increment(mem_contadores, categoria, sentido)
           s1 == IF due
                 THEN tx_save_to_database(StoreState, contadores, StoreUrl,
                                          fail_at, flush_raises)
                 ELSE StoreState
           s2 == tx_add_to_history(s1, categoria_en, categoria, sentido, StoreUrl)
       IN  /\ mem_contadores' = contadores
           /\ StoreBecomes(s2)
    /\ UNCHANGED <<st_thread, st_stop, cleanup_failed, pending_at_stop>>
    /\ UNCHANGED notStore

\* stop() called: running = False, and the wait for the thread begins.
StStopCall ==
    /\ st_stop = "none"
    /\ st_stop' = "requested"
    /\ UNCHANGED <<tx_committed, tx_working, in_transaction, mem_contadores,
                   st_thread, snapshot_committed, cleanup_failed, pending_at_stop>>
    /\ UNCHANGED notStore

\* run returns, or terminate() ends the thread outside the store.
StThreadEnds ==
    /\ st_stop = "requested"
    /\ st_thread = "running"
    /\ st_thread' = "ended"
    /\ UNCHANGED <<tx_committed, tx_working, in_transaction, mem_contadores,
                   st_stop, snapshot_committed, cleanup_failed, pending_at_stop>>
    /\ UNCHANGED notStore

\* terminate() ends the thread inside a store operation: self._lock stays
\* held, and cleanup() waits for it for ever.
StKilledInStore ==
    /\ st_stop = "requested"
    /\ st_thread = "running"
    /\ st_thread' = "killed_in_store"
    /\ UNCHANGED <<tx_committed, tx_working, in_transaction, mem_contadores,
                   st_stop, snapshot_committed, cleanup_failed, pending_at_stop>>
    /\ UNCHANGED notStore

\* cleanup() at the end of stop(), and the return of stop().
StCleanup(fail_at, flush_raises) ==
    /\ st_stop = "requested"
    /\ st_thread = "ended"
    /\ st_stop' = "returned"
    /\ cleanup_failed' = (fail_at # 0 \/ flush_raises)
    /\ pending_at_stop' =
          (in_transaction
             /\ RowsOf(tx_committed)
                  # RowsOf(delete_and_insert(EmptyDatabase, mem_contadores, StoreUrl,
                                             Len(InsertOrder))))
    /\ StoreBecomes(cleanup(StoreState, mem_contadores, StoreUrl, fail_at,
                            flush_raises))
    /\ UNCHANGED <<mem_contadores, st_thread>>
    /\ UNCHANGED notStore

NextStore ==
    \/ \E categoria_en \in {"car", "moto"}, sentido \in Dirs, due \in BOOLEAN,
          fail_at \in FailPoints, flush_raises \in BOOLEAN :
            StAdicionar(categoria_en, sentido, due, fail_at, flush_raises)
    \/ StStopCall
    \/ StThreadEnds
    \/ StKilledInStore
    \/ \E fail_at \in FailPoints, flush_raises \in BOOLEAN :
            StCleanup(fail_at, flush_raises)

SpecStore == InitStore /\ [][NextStore]_vars

\* C16: every committed state of the store holds, for the camera, either no
\* counter rows, when none were ever committed, or one whole snapshot: never
\* a deleted or partly re-inserted one.
C16_AtomicSnapshot ==
    IF snapshot_committed
    THEN WholeSnapshot(tx_committed)
    ELSE RowsOf(tx_committed) = {}

\* C17: whenever no operation of the store is executing, the connection has
\* no open write transaction.
C17_NoOpenTransaction ==
    st_thread # "killed_in_store" => ~in_transaction

\* C19: after stop() has returned without a statement of its save having
\* raised, the committed counter rows of the camera are the in-memory
\* counters, and every history row inserted by add_to_history is committed:
\* one row per vehicle counted, and no transaction left open.
C19_StopPersists ==
    (st_stop = "returned" /\ ~cleanup_failed) =>
        /\ \A c \in Cats, d \in Dirs :
              \E r \in RowsOf(tx_committed) :
                  r.categoria = c /\ r.sentido = d /\ r.valor = mem_contadores[c][d]
        /\ WholeSnapshot(tx_committed)
        /\ ~in_transaction
        /\ tx_committed.historico_v2 = tx_working.historico_v2
        /\ Len(tx_committed.historico_v2) =
              mem_contadores["total"]["ida"] + mem_contadores["total"]["volta"]

\* Witness of C19: stop() returned after a cleanup() that found counters not
\* yet saved and history rows not yet committed, two vehicles counted.
C19_Witness ==
    /\ st_stop = "returned" /\ ~cleanup_failed
    /\ pending_at_stop
    /\ mem_contadores["total"]["ida"] + mem_contadores["total"]["volta"] = 2
    /\ Len(tx_committed.historico_v2) = 2

-----------------------------------------------------------------------------
(***************************************************************************)
(* database.py: init_database with _check_and_migrate, add_to_history,     *)
(* clear_all and close over one file.  The legacy table 'historico' is     *)
(* given by its rows (rtsp_url, categoria, sentido); no statement of the   *)
(* program writes to it, renames it or drops it.  Closing the connection   *)
(* discards what was not committed.                                        *)
(***************************************************************************)

\* Bounds of SpecMigrate: the rows of historico_v2, the opens that migrate.
MaxMigrateRows == 2
MaxMigrations == 2

\* The legacy tables tried: none (or an empty one), one row of the camera,
\* one row without a URL, both.
LegacyTables ==
    {<<>>,
     <<[rtsp_url |-> "cam1", categoria |-> "Carros", sentido |-> "ida"]>>,
     <<[rtsp_url |-> "", categoria |-> "Motos", sentido |-> "volta"]>>,
     <<[rtsp_url |-> "cam1", categoria |-> "Carros", sentido |-> "ida"],
       [rtsp_url |-> "", categoria |-> "Motos", sentido |-> "volta"]>>}

\* SELECT DISTINCT rtsp_url FROM historico WHERE rtsp_url IS NOT NULL AND rtsp_url != ''.
legacy_urls(rows) == {rows[i].rtsp_url : i \in 1..Len(rows)} \ {""}

\* The list 'migrations' of one batch: the rows whose camera exists, converted.
RECURSIVE migrated_rows(_, _)
migrated_rows(rows, cameras) ==
    IF rows = <<>> THEN <<>>
    ELSE LET r == Head(rows)
             rest == migrated_rows(Tail(rows), cameras)
         IN  IF r.rtsp_url \notin cameras THEN rest
             ELSE <<[camera |-> r.rtsp_url,
                     categoria_id |-> CATEGORIA_MAP_ID(r.categoria),
                     sentido_id |-> SENTIDO_MAP_ID(r.sentido)]>> \o rest

\* Whether _check_and_migrate goes on to copy: the table 'historico' exists
\* and SELECT COUNT(*) FROM historico_v2 is 0.
needs_migration(s, rows) == rows # <<>> /\ Len(s.working.historico_v2) = 0

\* _check_and_migrate: the cameras are inserted, the converted rows are
\* inserted and committed (one batch).
check_and_migrate(s, rows) ==
    IF ~needs_migration(s, rows) THEN s
    ELSE LET urls == legacy_urls(rows)
             cams == s.working.cameras \cup urls
             new == migrated_rows(rows, cams)
             s1 == [s EXCEPT !.working.cameras = cams,
                             !.working.historico_v2 = @ \o new,
                             !.in_transaction = (s.in_transaction \/ urls # {})]
         IN  IF new # <<>> THEN tx_commit(s1) ELSE s1

\* CounterDatabase.clear_all: both DELETEs and the commit.
tx_clear_all(s) ==
    tx_commit([s EXCEPT !.working = clear_all(@), !.in_transaction = TRUE])

\* CounterDatabase.close: conn.close() rolls back what is not committed.
tx_close(s) == [s EXCEPT !.working = s.committed, !.in_transaction = FALSE]

MigrateBecomes(s) ==
    /\ tx_committed' = s.committed
    /\ tx_working' = s.working
    /\ in_transaction' = s.in_transaction

\* A file with a legacy table, not yet opened by this version.
InitMigrate ==
    /\ LaterIdle
    /\ conn = "closed"
    /\ historico \in LegacyTables
    /\ migrations = 0
    /\ tx_committed = EmptyDatabase
    /\ tx_working = EmptyDatabase
    /\ in_transaction = FALSE
    /\ mem_contadores = ZeroCounters
    /\ st_thread = "none"
    /\ st_stop = "none"
    /\ snapshot_committed = FALSE
    /\ cleanup_failed = FALSE
    /\ pending_at_stop = FALSE
    /\ LineIdle
    /\ CounterIdle
    /\ PipelineIdle
    /\ QueueIdle
    /\ CaptureIdle
    /\ ZoneIdle
    /\ QueueConfigIdle
    /\ RoiIdle
    /\ ReconnectIdle
    /\ BufferIdle

\* CounterDatabase(db_path): init_database connects, creates the missing
\* tables and calls _check_and_migrate.
MgOpen ==
    /\ conn = "closed"
    /\ migrations < MaxMigrations
    /\ conn' = "open"
    /\ LET s == check_and_migrate(StoreState, historico)
       IN  /\ MigrateBecomes(s)
           /\ migrations' =
                 IF Len(s.working.historico_v2) > Len(tx_working.historico_v2)
                 THEN migrations + 1 ELSE migrations
    /\ UNCHANGED historico
    /\ UNCHANGED notMigrate

\* add_to_history(categoria_en, categoria, sentido, rtsp_url).
MgAddToHistory(categoria_en, sentido) ==
    /\ conn = "open"
    /\ Len(tx_working.historico_v2) < MaxMigrateRows
    /\ MigrateBecomes(tx_add_to_history(StoreState, categoria_en,
                                        categoria_map(categoria_en), sentido, StoreUrl))
    /\ UNCHANGED <<conn, historico, migrations>>
    /\ UNCHANGED notMigrate

\* clear_all().
MgClearAll ==
    /\ conn = "open"
    /\ MigrateBecomes(tx_clear_all(StoreState))
    /\ UNCHANGED <<conn, historico, migrations>>
    /\ UNCHANGED notMigrate

\* flush().
MgFlush ==
    /\ conn = "open"
    /\ MigrateBecomes(tx_flush(StoreState, FALSE))
    /\ UNCHANGED <<conn, historico, migrations>>
    /\ UNCHANGED notMigrate

\* close().
MgClose ==
    /\ conn = "open"
    /\ conn' = "closed"
    /\ MigrateBecomes(tx_close(StoreState))
    /\ UNCHANGED <<historico, migrations>>
    /\ UNCHANGED notMigrate

NextMigrate ==
    \/ MgOpen
    \/ \E categoria_en \in {"car", "moto"}, sentido \in Dirs :
            MgAddToHistory(categoria_en, sentido)
    \/ MgClearAll
    \/ MgFlush
    \/ MgClose

SpecMigrate == InitMigrate /\ [][NextMigrate]_vars

\* C18: over every sequence of open, add_to_history, clear_all, close and
\* reopen, the rows of the legacy table are copied into historico_v2 by at
\* most one open.
C18_MigratesOnce == migrations <= 1

-----------------------------------------------------------------------------
(***************************************************************************)
(* detector.py: frame_queue between _read_loop (the only producer of a     *)
(* capture) and read() (the consumer).  Frames are numbered in the order   *)
(* _safe_base_read returned them.  Every method of queue.Queue is atomic;  *)
(* the two threads interleave between any two of them.                     *)
(***************************************************************************)

\* Bound of SpecBuffer: the frames decoded.
MaxFrames == 6

\* The frame removed is the newest one.
drop_newest(q) == [frame |-> q[Len(q)], rest |-> SubSeq(q, 1, Len(q) - 1)]

\* frame_queue.get_nowait() and frame_queue.get(): the oldest frame.
get_nowait(q) == [frame |-> Head(q), rest |-> Tail(q)]

\* frame_queue.full().
full(q) == Len(q) >= BUFFER_SIZE

InitBuffer ==
    /\ LaterIdle
    /\ BufferIdle
    /\ LineIdle
    /\ CounterIdle
    /\ PipelineIdle
    /\ QueueIdle
    /\ CaptureIdle
    /\ ZoneIdle
    /\ QueueConfigIdle
    /\ RoiIdle
    /\ ReconnectIdle
    /\ StoreIdle
    /\ MigrateIdle

\* _safe_base_read returned a frame: frame_count += 1.
FbDecode ==
    /\ fb_pc = "decode"
    /\ fb_decoded < MaxFrames
    /\ fb_decoded' = fb_decoded + 1
    /\ fb_frame' = fb_decoded + 1
    /\ fb_pc' = "full"
    /\ UNCHANGED <<fb_queue, fb_last, fb_dropped, fb_lost>>
    /\ UNCHANGED notBuffer

\* if self.frame_queue.full():
FbFull ==
    /\ fb_pc = "full"
    /\ fb_pc' = IF full(fb_queue) THEN "get_nowait" ELSE "put_nowait"
    /\ UNCHANGED <<fb_queue, fb_frame, fb_decoded, fb_last, fb_dropped, fb_lost>>
    /\ UNCHANGED notBuffer

\* self.frame_queue.get_nowait(), queue.Empty passed over.
FbGetNowait ==
    /\ fb_pc = "get_nowait"
    /\ fb_pc' = "put_nowait"
    /\ IF fb_queue = <<>>
       THEN UNCHANGED <<fb_queue, fb_dropped>>
       ELSE /\ fb_queue' = get_nowait(fb_queue).rest
            /\ fb_dropped' = fb_dropped \cup {get_nowait(fb_queue).frame}
    /\ UNCHANGED <<fb_frame, fb_decoded, fb_last, fb_lost>>
    /\ UNCHANGED notBuffer

\* self.frame_queue.put_nowait(frame), queue.Full passed over.
FbPutNowait ==
    /\ fb_pc = "put_nowait"
    /\ fb_pc' = "decode"
    /\ IF full(fb_queue)
       THEN /\ fb_lost' = fb_lost \cup {fb_frame}
            /\ UNCHANGED fb_queue
       ELSE /\ fb_queue' = Append(fb_queue, fb_frame)
            /\ UNCHANGED fb_lost
    /\ UNCHANGED <<fb_frame, fb_decoded, fb_last, fb_dropped>>
    /\ UNCHANGED notBuffer

\* read(): frame_queue.get(timeout=1.0) returns a frame.
FbRead ==
    /\ fb_queue # <<>>
    /\ fb_queue' = get_nowait(fb_queue).rest
    /\ fb_last' = get_nowait(fb_queue).frame
    /\ UNCHANGED <<fb_pc, fb_frame, fb_decoded, fb_dropped, fb_lost>>
    /\ UNCHANGED notBuffer

NextBuffer ==
    \/ FbDecode
    \/ FbFull
    \/ FbGetNowait
    \/ FbPutNowait
    \/ FbRead

SpecBuffer == InitBuffer /\ [][NextBuffer]_vars

\* The frames of a queue.
FramesIn(q) == {q[i] : i \in 1..Len(q)}

\* C20: under every interleaving the queue never holds more than buffer_size
\* frames; the frame the reader removes to make room is the oldest one in the
\* queue, and it is removed before the new frame is enqueued; the new frame
\* is never refused; and read() takes the frames in the order they were
\* decoded.
C20_FrameBuffer ==
    /\ [](Len(fb_queue) <= BUFFER_SIZE)
    /\ [](fb_lost = {})
    /\ [](\A i, j \in 1..Len(fb_queue) : i < j => fb_queue[i] < fb_queue[j])
    /\ [](\A f \in FramesIn(fb_queue) : fb_last < f)
    /\ [][fb_dropped' # fb_dropped =>
            /\ \A f \in fb_dropped' \ fb_dropped :
                  /\ f \in FramesIn(fb_queue)
                  /\ \A g \in FramesIn(fb_queue) : f <= g
            /\ fb_frame \notin FramesIn(fb_queue')]_vars
    /\ [][fb_pc = "put_nowait" /\ fb_pc' # fb_pc =>
            fb_queue' = Append(fb_queue, fb_frame)]_vars
    /\ [][fb_last' # fb_last => fb_last' > fb_last]_vars

\* Witness of C20: the reader found the queue full, removed frame 1 and
\* enqueued frame 4; read() has since taken frame 2.
C20_Witness ==
    /\ fb_dropped = {1}
    /\ fb_last = 2
    /\ fb_queue = <<3, 4>>

-----------------------------------------------------------------------------
(***************************************************************************)
(* The mutexes of the two stores. main_window.py 46 and 1128: the UI thread*)
(* and the pipeline thread share one CounterDatabase, whose every method   *)
(* runs under self._lock (database.py 41, 245-850). detector.py 367: the   *)
(* VideoThread has a QueueDatabase of its own, with its own _lock          *)
(* (queue_database.py 27). process_video (676-773) runs the counter writes *)
(* of a frame, then queue_manager.update, on the pipeline thread.          *)
(***************************************************************************)

Threads == {"pl", "ui"}

\* The methods of CounterDatabase that write, and those that only query.
WriteOps == {"save_counters", "flush", "add_to_history", "clear_all"}
ReadOps == {"get_history_events", "get_hourly_traffic"}

\* The store an operation belongs to: save_event is QueueDatabase's.
store_of(op) == IF op = "save_event" THEN "queue" ELSE "counter"

\* One lock for both stores.
lock_of_shared(store) == "counter"

\* self._lock = threading.Lock() in each __init__: a lock per store.
lock_of(store) == store

\* An acquire that does not look at the holder.
lock_free_always(holder) == TRUE

\* "with self._lock": threading.Lock is acquired only when no thread holds it.
lock_free(holder) == holder = "free"

\* counter.adicionar (counter.py 124-132): save_to_database (save_counters,
\* then flush) when _save_interval has passed, then add_to_history.
adicionar_ops(save_due) ==
    IF save_due THEN <<"save_counters", "flush", "add_to_history">>
    ELSE <<"add_to_history">>

\* The store operations of one frame of process_video: the counter writes of
\* a counted crossing when monitoring_active, then the save_event of a
\* finalized vehicle when queue_active.
frame_ops(counted, save_due, finalized) ==
    (IF monitoring_active /\ counted THEN adicionar_ops(save_due) ELSE <<>>)
        \o (IF queue_active /\ finalized THEN <<"save_event">> ELSE <<>>)

notLocks == <<firstVars, secondVars, readVars, dirVars, debounceVars, fourthVars>>

\* set_monitoring_active and set_queue_active were called with any values.
InitLocks ==
    /\ FourthIdle
    /\ monitoring_active \in BOOLEAN
    /\ queue_active \in BOOLEAN
    /\ db_lock = [s \in {"counter", "queue"} |-> "free"]
    /\ lk_todo = [t \in Threads |-> <<>>]
    /\ lk_in = {}
    /\ LineIdle
    /\ CounterIdle
    /\ PipelineIdle
    /\ QueueIdle
    /\ CaptureIdle
    /\ SecondIdle
    /\ ReadIdle
    /\ DirectionIdle
    /\ DebounceIdle

\* The pipeline thread starts the counting and queue steps of a frame.
LkFrame(counted, save_due, finalized) ==
    /\ lk_todo["pl"] = <<>>
    /\ frame_ops(counted, save_due, finalized) # <<>>
    /\ lk_todo' = [lk_todo EXCEPT !["pl"] = frame_ops(counted, save_due, finalized)]
    /\ UNCHANGED <<monitoring_active, queue_active, db_lock, lk_in>>
    /\ UNCHANGED notLocks

\* The UI thread calls a query of the dashboard or clear_all.
LkUiCall(op) ==
    /\ lk_todo["ui"] = <<>>
    /\ lk_todo' = [lk_todo EXCEPT !["ui"] = <<op>>]
    /\ UNCHANGED <<monitoring_active, queue_active, db_lock, lk_in>>
    /\ UNCHANGED notLocks

\* The lock the thread needs for the operation at the head of its list.
lock_needed(t) == lock_of(store_of(Head(lk_todo[t])))

\* "with self._lock" of the next operation of the thread: it enters.
LkAcquire(t) ==
    /\ lk_todo[t] # <<>>
    /\ t \notin lk_in
    /\ lock_free(db_lock[lock_needed(t)])
    /\ db_lock' = [db_lock EXCEPT ![lock_needed(t)] = t]
    /\ lk_in' = lk_in \cup {t}
    /\ UNCHANGED <<monitoring_active, queue_active, lk_todo>>
    /\ UNCHANGED notLocks

\* The operation ends and the with block releases the lock.
LkRelease(t) ==
    /\ t \in lk_in
    /\ db_lock' = [db_lock EXCEPT ![lock_needed(t)] = "free"]
    /\ lk_in' = lk_in \ {t}
    /\ lk_todo' = [lk_todo EXCEPT ![t] = Tail(lk_todo[t])]
    /\ UNCHANGED <<monitoring_active, queue_active>>
    /\ UNCHANGED notLocks

NextLocks ==
    \/ \E counted \in BOOLEAN, save_due \in BOOLEAN, finalized \in BOOLEAN :
           LkFrame(counted, save_due, finalized)
    \/ \E op \in ReadOps \cup {"clear_all"} : LkUiCall(op)
    \/ \E t \in Threads : LkAcquire(t)
    \/ \E t \in Threads : LkRelease(t)

SpecLocks == InitLocks /\ [][NextLocks]_vars

\* The thread is at "with self._lock" of its next operation and another
\* thread holds that lock.
must_wait(t) ==
    /\ lk_todo[t] # <<>>
    /\ t \notin lk_in
    /\ db_lock[lock_needed(t)] # "free"

\* The operations the thread has not finished.
ops_left(t) == {lk_todo[t][i] : i \in DOMAIN lk_todo[t]}

\* C22 as stated: a save_event that the pipeline's frame needs never has to
\* wait for the CounterStore mutex or for a CounterStore operation in
\* progress: the pipeline thread is never held up while the save_event of its
\* frame is still to be done.
C22_NeverStalled == "save_event" \in ops_left("pl") => ~must_wait("pl")

\* C22 amended: save_event takes the QueueStore's own mutex only; once the
\* pipeline thread has reached save_event it never waits for a lock, whatever
\* CounterStore operation is in progress on another thread.
C22_OwnMutexOnly ==
    \A t \in Threads :
        (lk_todo[t] # <<>> /\ Head(lk_todo[t]) = "save_event") =>
            /\ ~must_wait(t)
            /\ t \in lk_in => db_lock["queue"] = t /\ db_lock["counter"] # t

\* Witness of C22: the pipeline thread is inside save_event while the UI
\* thread is inside a CounterStore operation.
C22_Witness ==
    /\ "pl" \in lk_in /\ Head(lk_todo["pl"]) = "save_event"
    /\ "ui" \in lk_in /\ db_lock["counter"] = "ui"

\* The threads inside a CounterStore operation of the given kind.
inside(ops) == {t \in lk_in : Head(lk_todo[t]) \in ops}

-----------------------------------------------------------------------------
(***************************************************************************)
(* detector.py: the line branch of process_video (711-737) for one track,  *)
(* frame by frame, under every combination of x_mid_ratio,                 *)
(* invert_direction and direction_mode.                                    *)
(***************************************************************************)

\* The centroids tried: above and below the line, left and right of x_mid.
DirPoints == {<<4, 5>>, <<16, 5>>, <<4, 15>>, <<16, 15>>}

\* What the tracker reports for the track in one frame.
DirInputs ==
    {NotReported, [here |-> TRUE, label |-> "person", x |-> 4, y |-> 15]}
        \cup {Car(p) : p \in DirPoints}

\* The line configurations tried.
DirConfigs ==
    [counting_mode : {"line"}, invert_direction : BOOLEAN,
     direction_mode : {"both", "ida_only", "volta_only"}, x_mid_set : BOOLEAN,
     categorias : {Categorias}]

\* The time between two frames, half of track_ttl.
DirStep == TRACK_TTL \div 2

\* The crossings logged at most.
MaxLog == 2

notDirection == <<lineVars, queueVars, threadVars, captureVars, stopVars, secondVars,
                  readVars, lockVars, debounceVars, fourthVars>>

\* VideoThread.__init__ with counting_mode 'line', a camera URL and an empty
\* store.
InitDirection ==
    /\ FourthIdle
    /\ config \in DirConfigs
    /\ TrackStateIs(NoTrackState)
    /\ count_events = NoEvents
    /\ life_events = NoEvents
    /\ counter = NewCounter("cam1", ZeroCounters)
    /\ database = EmptyDatabase
    /\ ui_counters = ZeroCounters
    /\ saved = [u \in Urls |-> NoSnap]
    /\ dir_log = <<>>
    /\ LineIdle
    /\ QueueIdle
    /\ CaptureIdle
    /\ SecondIdle
    /\ ReadIdle
    /\ LocksIdle
    /\ DebounceIdle

\* What the line branch made of the step of track 1 to the reported centroid:
\* "counted", "dropped" by direction_mode, or "none".
crossing_outcome(inp) ==
    LET prev == track_last_center_xy[1]
        e == line_event(config, prev.x, prev.y, inp.x, inp.y)
    IN  IF ~(inp.here /\ inp.label \in config.categorias /\ prev.present) THEN "none"
        ELSE IF e.crossed
        THEN (IF track_counted[1][e.s_event] THEN "none" ELSE "counted")
        ELSE IF e.s_event # "none" THEN "dropped" ELSE "none"

\* One processed frame with track 1 as reported.
DirFrame(inp) ==
    /\ Len(database.historico_v2) < MaxEvents
    /\ LET tracks == [t \in Tracks |-> IF t = 1 THEN inp ELSE NotReported]
           st == process_frame(PipelineState, config, DirStep, tracks)
           out == crossing_outcome(inp)
       IN  /\ PipelineBecomes(st)
           /\ ui_counters' = st.counter.contadores
           /\ dir_log' = IF ~st.track_counted[1].present THEN <<>>
                         ELSE IF out = "none" \/ Len(dir_log) >= MaxLog THEN dir_log
                         ELSE Append(dir_log, out)
    /\ UNCHANGED <<config, saved>>
    /\ UNCHANGED notDirection

NextDirection == \E inp \in DirInputs : DirFrame(inp)

SpecDirection == InitDirection /\ [][NextDirection]_vars

\* The frame processed track 1 and its step from the last centre to the new
\* one crosses the line.
LineCrossing ==
    /\ track_last_seen'[1] = 0
    /\ track_last_center_xy[1].present
    /\ crossed_horizontal_line(track_last_center_xy[1].x, track_last_center_xy[1].y,
                               track_last_center_xy'[1].x, track_last_center_xy'[1].y,
                               lx1, lx2, ly, BAND_PX).crossed

\* The sentido of that crossing: from the vertical movement, replaced by the
\* side of x_mid when x_mid_ratio is set, then swapped when invert_direction.
ComposedDirection ==
    LET prev == track_last_center_xy[1]
        curr == track_last_center_xy'[1]
        x_num == prev.x * (curr.y - prev.y) + (ly - prev.y) * (curr.x - prev.x)
        raw == IF curr.y < prev.y THEN "ida" ELSE "volta"
        s1 == IF config.x_mid_set
              THEN (IF XBelow(x_num, curr.y - prev.y, x_mid_px) THEN "ida" ELSE "volta")
              ELSE raw
    IN  IF config.invert_direction
        THEN (IF s1 = "ida" THEN "volta" ELSE "ida")
        ELSE s1

\* direction_mode lets the sentido through.
Allowed(d) ==
    /\ ~(config.direction_mode = "ida_only" /\ d = "volta")
    /\ ~(config.direction_mode = "volta_only" /\ d = "ida")

\* C23: a line crossing is counted in the direction composed in this order:
\* the raw direction of the vertical movement, replaced by the side of x_mid
\* when x_mid_ratio is set, swapped when invert_direction, dropped when
\* direction_mode excludes it; and in no other direction.
C23_DirectionOrder ==
    [][\A d \in Dirs :
        LET due == /\ LineCrossing
                   /\ ComposedDirection = d
                   /\ Allowed(d)
                   /\ ~track_counted[1][d]
        IN  count_events'[1][d] = count_events[1][d] + (IF due THEN 1 ELSE 0)]_vars

\* Witness of C23: with x_mid_ratio set, invert_direction on and only 'ida'
\* counted, a crossing was counted as 'ida' and none as 'volta'.
C23_Witness ==
    /\ config.x_mid_set /\ config.invert_direction
    /\ config.direction_mode = "ida_only"
    /\ dir_log = <<"counted">>
    /\ count_events[1] = [ida |-> 1, volta |-> 0]

\* The frame processed track 1 at the centre stored for it, or with no centre
\* stored for it (prev_xy then defaults to curr_xy).
Unmoved ==
    /\ track_last_seen'[1] = 0
    /\ \/ ~track_last_center_xy[1].present
       \/ track_last_center_xy'[1] = track_last_center_xy[1]

\* C40: line mode emits no count event for a track in a frame where its
\* centroid equals its previously stored centroid; in particular not in the
\* first frame in which the track id is observed, nor in a frame processed
\* again with the track positions unchanged.
C40_NoCountWithoutMovement ==
    [][Unmoved =>
        /\ count_events'[1] = count_events[1]
        /\ database'.historico_v2 = database.historico_v2
        /\ counter'.contadores = counter.contadores]_vars

\* Witness of C40: with both directions counted, track 1 is known below the
\* line with neither direction counted and no event in the store: it was
\* first observed there.
C40_Witness ==
    /\ config.direction_mode = "both" /\ ~config.x_mid_set
    /\ track_last_seen[1] = 0
    /\ track_last_center_xy[1] = [present |-> TRUE, x |-> 4, y |-> 15]
    /\ track_counted[1] = [present |-> TRUE, ida |-> FALSE, volta |-> FALSE]
    /\ database.historico_v2 = <<>>

\* C28: a line crossing that direction_mode filters out changes nothing: the
\* counters, the history in memory and in the store, and the counted flags of
\* the track are as they were.
C28_FilteredChangesNothing ==
    [][(LineCrossing /\ ~Allowed(ComposedDirection)) =>
        /\ counter'.contadores = counter.contadores
        /\ counter'.historico = counter.historico
        /\ database' = database
        /\ ui_counters' = counter.contadores
        /\ track_counted'[1] = track_counted[1]
        /\ count_events' = count_events]_vars

\* Witness of C28: a crossing of the track was filtered out, and the next
\* one, in the allowed direction, was counted.
C28_Witness ==
    /\ dir_log = <<"dropped", "counted">>
    /\ config.direction_mode = "volta_only"
    /\ track_counted[1] = [present |-> TRUE, ida |-> FALSE, volta |-> TRUE]
    /\ counter.contadores["total"] = [ida |-> 0, volta |-> 1]

-----------------------------------------------------------------------------
(***************************************************************************)
(* detector.py: the cleanup of old tracks (788-795) and the cooldown of    *)
(* the zone branch (744-760), over the frames of SpecZone.                 *)
(***************************************************************************)

\* No per-track map holds an entry for the track.
NoEntryFor(t) ==
    /\ ~track_counted[t].present
    /\ ~track_last_center_xy[t].present
    /\ track_last_zone[t] = "absent"
    /\ track_last_event_time[t] = Absent
    /\ track_last_seen[t] = Absent

\* C27: at the end of each processed frame, a track last seen more than
\* TRACK_TTL ago has no entry left in any per-track map (counted flags, last
\* centre, last zone, last event time, last seen), and a frame drops no track
\* seen within TRACK_TTL.
C27_TrackGC ==
    /\ [](\A t \in Tracks :
            (track_last_seen[t] = Absent \/ track_last_seen[t] > TRACK_TTL)
                => NoEntryFor(t))
    /\ [][\A t \in Tracks :
            (track_last_seen[t] # Absent /\ track_last_seen[t] + frame_dt' <= TRACK_TTL)
                => /\ track_last_seen'[t] # Absent
                   /\ track_counted'[t].present
                   /\ track_last_center_xy'[t].present]_vars

\* The frame processed track 1 in a zone other than its last one, less than
\* the cooldown after the last event of the track.
RejectedZoneChange ==
    /\ track_last_seen'[1] = 0
    /\ zone_of(track_last_center_xy'[1].x, track_last_center_xy'[1].y) \in {"down", "up"}
    /\ zone_of(track_last_center_xy'[1].x, track_last_center_xy'[1].y) # track_last_zone[1]
    /\ track_last_event_time[1] # Absent
    /\ track_last_event_time[1] + frame_dt' <= ZONE_COOLDOWN

\* The frame processed track 1 in the zone it was last in.
StaysInZone ==
    /\ track_last_seen'[1] = 0
    /\ zone_of(track_last_center_xy'[1].x, track_last_center_xy'[1].y) = track_last_zone[1]

\* C29: a zone change within the cooldown counts nothing, whether or not its
\* direction was counted before, and last_zone becomes the new zone in that
\* frame; a frame in which the track is still in its last zone counts nothing.
C29_RejectedChangeConsumed ==
    [][/\ RejectedZoneChange =>
            /\ count_events' = count_events
            /\ counter'.contadores = counter.contadores
            /\ track_last_zone'[1] =
                   zone_of(track_last_center_xy'[1].x, track_last_center_xy'[1].y)
       /\ StaysInZone =>
            /\ count_events' = count_events
            /\ track_last_zone'[1] = track_last_zone[1]]_vars

\* Witness of C29: the change to 'up' came within the cooldown of the 'ida'
\* event and was not counted; the track is still in 'up' after the cooldown
\* has passed, with 'volta' not counted.
C29_Witness ==
    /\ track_last_zone[1] = "up"
    /\ track_last_seen[1] = 0
    /\ track_last_event_time[1] > ZONE_COOLDOWN
    /\ track_counted[1] = [present |-> TRUE, ida |-> TRUE, volta |-> FALSE]
    /\ count_events[1] = [ida |-> 1, volta |-> 0]

-----------------------------------------------------------------------------
(***************************************************************************)
(* queue_manager.py: the debounce of QueueManager.update (104-170), with   *)
(* the calls of update in a row that reported each track inside, or        *)
(* outside, counted apart from frames_inside and frames_outside.           *)
(***************************************************************************)

notDebounce == <<lineVars, counterVars, trackVars, threadVars, captureVars, stopVars,
                 secondVars, readVars, lockVars, dirVars, fourthVars>>

\* VideoThread.__init__ and set_queue_active(True), with the default
\* queue_config.
InitDebounce ==
    /\ FourthIdle
    /\ q_now \in {0, 1}
    /\ q_reported = {}
    /\ QueueIs(NewQueue)
    /\ DebounceIdle
    /\ LineIdle
    /\ CounterIdle
    /\ PipelineIdle
    /\ CaptureIdle
    /\ SecondIdle
    /\ ReadIdle
    /\ LocksIdle
    /\ DirectionIdle

\* Bound of SpecDebounce: the time of the last frame tried, 9 s, enough for
\* an entry, an exit by the twelve frames outside and a second entry.
MaxDebounceTime == 18

\* The vehicle of the track is IN_QUEUE.
InQueue(wv, t) == wv[t].present /\ wv[t].state = "IN_QUEUE"

\* A run of calls of update, one longer or started again, counted up to cap.
run_next(run, goes_on, cap) ==
    IF ~goes_on THEN 0 ELSE IF run >= cap THEN cap ELSE run + 1

\* One processed frame with queue mode active: QueueManager.update is called
\* when the tracker reports any track.
DebounceFrame(dt, tracks) ==
    /\ q_now + dt <= MaxDebounceTime
    /\ q_now' = q_now + dt
    /\ q_reported' = {t \in Tracks : tracks[t] # "absent"}
    /\ IF \E t \in Tracks : tracks[t] # "absent"
       THEN /\ QueueBecomes(update(QueueState, tracks, q_now + dt))
            /\ run_inside' = [t \in Tracks |->
                   run_next(run_inside[t], tracks[t] = "inside", ENTER_FRAMES)]
            /\ run_outside' = [t \in Tracks |->
                   run_next(run_outside[t], tracks[t] = "outside", EXIT_FRAMES)]
       ELSE UNCHANGED <<waiting_vehicles, completed_waits, session_history,
                        current_queue_size, max_wait_current, queue_history,
                        run_inside, run_outside>>
    /\ ever_finished' = ever_finished \cup
           {t \in Tracks : InQueue(waiting_vehicles, t) /\ ~InQueue(waiting_vehicles', t)}
    /\ UNCHANGED notDebounce

\* The time between two frames: 0.5 s.
DebounceStep == TICKS_PER_SEC \div 2

NextDebounce == \E tracks \in QueueFrames : DebounceFrame(DebounceStep, tracks)

SpecDebounce == InitDebounce /\ [][NextDebounce]_vars

\* C24: a track that is not IN_QUEUE becomes IN_QUEUE exactly in the call of
\* update that is the third in a row to report it inside the polygon, with
\* entry_time the time of that frame and current_wait 0; a call that reports
\* it outside starts the count again.
C24_EnterDebounce ==
    [][\A t \in Tracks :
        LET enters == ~InQueue(waiting_vehicles, t) /\ InQueue(waiting_vehicles', t)
        IN  /\ enters <=> (~InQueue(waiting_vehicles, t)
                              /\ t \in q_reported'
                              /\ run_inside'[t] >= ENTER_FRAMES)
            /\ enters => /\ waiting_vehicles'[t].entry_time = q_now'
                         /\ waiting_vehicles'[t].current_wait = 0]_vars

\* Witness of C24: the track entered in this frame, the third in a row that
\* reported it inside, after an earlier frame had reported it outside.
C24_Witness ==
    /\ InQueue(waiting_vehicles, 1)
    /\ waiting_vehicles[1].entry_time = q_now
    /\ run_inside[1] = ENTER_FRAMES
    /\ q_now >= ENTER_FRAMES + 2

\* C25: a track that is IN_QUEUE and reported in the frame leaves IN_QUEUE
\* exactly in the call of update that is the twelfth in a row to report it
\* outside the polygon; a call that reports it inside starts the count again.
C25_ExitDebounce ==
    [][\A t \in Tracks :
        (InQueue(waiting_vehicles, t) /\ t \in q_reported') =>
            (~InQueue(waiting_vehicles', t) <=> run_outside'[t] >= EXIT_FRAMES)]_vars

\* Witness of C25: the track was finalized by the twelfth outside frame in a
\* row and its event is in the session history.
C25_Witness ==
    /\ 1 \in ever_finished
    /\ 1 \in q_reported
    /\ run_outside[1] = EXIT_FRAMES
    /\ ~waiting_vehicles[1].present
    /\ Len(session_history) = 1

\* The events of the session history for the track.
EventsOf(t) == {i \in 1..Len(session_history) : session_history[i].track_id = t}

\* C26: a track never goes from IN_QUEUE back to IDLE, a track id that was
\* finalized is never IN_QUEUE again, and no track id has two events.
C26_Monotonic ==
    /\ [][\A t \in Tracks :
            InQueue(waiting_vehicles, t) =>
                ~(waiting_vehicles'[t].present /\ waiting_vehicles'[t].state = "IDLE")]_vars
    /\ [](\A t \in ever_finished : ~InQueue(waiting_vehicles, t))
    /\ [](\A t \in Tracks : Cardinality(EventsOf(t)) <= 1)


-----------------------------------------------------------------------------
(***************************************************************************)
(* detector.py: SuppressFFmpegOutput (28-59) and the threads that enter    *)
(* it, for two captures of one process (the monitoring VideoThread and the *)
(* one of the queue tab).  Per capture: the thread that constructs         *)
(* RTSPCapture and opens the stream (thread 0), and the sub-threads that   *)
(* _safe_base_read starts on base_capture.read() (threads 1..MaxSubs).     *)
(* The native open and the native read are made inside the block; they end *)
(* at any time or never.  The 6 s of t.join(timeout) are not counted: the  *)
(* join may time out whenever the sub-thread is still alive.  The frame    *)
(* that a read returns is not kept here (SpecBuffer has the queue).        *)
(***************************************************************************)

\* The captures of the process.
Cams == {1, 2}

\* Bound of SpecSuppress: the sub-threads of one capture alive at once.
MaxSubs == 2

SupThreads == Cams \X (0..MaxSubs)

\* The holder of a lock that is free.
NoThread == <<0, 0>>

SubsOf(c) == {c} \X (1..MaxSubs)

\* How the setup of the block can end: all three calls succeed; os.open or
\* os.dup raises; os.dup2(null_fd, 2) raises.
SetupOutcomes == {"ok", "early", "dup2"}

\* How the native call in the block can end.
BodyOutcomes == {"ok", "fail", "raise"}

\* 'suppressed' after the setup.
suppressed_after(outcome) == outcome = "ok"

\* save_fd after the setup: os.dup(2) when it was reached.
save_fd_after(outcome, fd) == IF outcome = "early" THEN "none" ELSE fd

\* File descriptor 2 after the setup: os.dup2(null_fd, 2).
redirect_fd(outcome, fd) == IF outcome = "ok" THEN "null" ELSE fd

\* A finally clause that leaves file descriptor 2 as it is.
restore_fd_skipped(fd, save_fd, suppressed) == fd

\* The finally clause: os.dup2(save_fd, 2) when suppressed.
restore_fd(fd, save_fd, suppressed) == IF suppressed THEN save_fd ELSE fd

\* threading.Lock.acquire returns only when the lock is free.
suppress_lock_free == sup_lock = NoThread

notSuppress == <<firstVars, secondVars, readVars, lockVars, dirVars, debounceVars,
                 persistVars, shareVars>>

\* The module is imported: the lock is free, fd 2 is the stderr of the
\* process, no capture is constructed.
InitSuppress ==
    /\ sup_lock = NoThread
    /\ fd2 = "stderr"
    /\ th_pc = [t \in SupThreads |-> "none"]
    /\ th_save_fd = [t \in SupThreads |-> "none"]
    /\ th_suppressed = [t \in SupThreads |-> FALSE]
    /\ th_ret = [t \in SupThreads |-> "none"]
    /\ sr_pc = [c \in Cams |-> "closed"]
    /\ sr_cur = [c \in Cams |-> 0]
    /\ last_exit = [how |-> "none", suppressed |-> FALSE]
    /\ LineIdle
    /\ CounterIdle
    /\ PipelineIdle
    /\ QueueIdle
    /\ CaptureIdle
    /\ SecondIdle
    /\ ReadIdle
    /\ LocksIdle
    /\ DirectionIdle
    /\ DebounceIdle
    /\ PersistIdle
    /\ ShareIdle

\* RTSPCapture.__init__: the constructing thread calls _open_pyav or
\* _open_opencv, which enters SuppressFFmpegOutput.
SrOpenBegin(c) ==
    /\ sr_pc[c] = "closed"
    /\ sr_pc' = [sr_pc EXCEPT ![c] = "opening"]
    /\ th_pc' = [th_pc EXCEPT ![<<c, 0>>] = "acquire"]
    /\ UNCHANGED <<sup_lock, fd2, th_save_fd, th_suppressed, th_ret, sr_cur, last_exit>>
    /\ UNCHANGED notSuppress

\* _ffmpeg_suppress_lock.acquire() returns in thread t, and the setup runs:
\* os.open, os.dup(2), os.dup2(null_fd, 2), any of which may raise.
SupEnter(t, outcome) ==
    /\ th_pc[t] = "acquire"
    /\ suppress_lock_free
    /\ sup_lock' = t
    /\ th_pc' = [th_pc EXCEPT ![t] = "body"]
    /\ th_save_fd' = [th_save_fd EXCEPT ![t] = save_fd_after(outcome, fd2)]
    /\ th_suppressed' = [th_suppressed EXCEPT ![t] = suppressed_after(outcome)]
    /\ fd2' = redirect_fd(outcome, fd2)
    /\ UNCHANGED <<th_ret, sr_pc, sr_cur, last_exit>>
    /\ UNCHANGED notSuppress

\* The native call of thread t returns or raises, and the finally clause
\* runs: fd 2 restored when suppressed, the lock released.  A sub-thread
\* that _safe_base_read no longer joins ends with its result unread.
SupLeave(t, how) ==
    /\ th_pc[t] = "body"
    /\ fd2' = restore_fd(fd2, th_save_fd[t], th_suppressed[t])
    /\ sup_lock' = NoThread
    /\ LET joined == t[2] = 0 \/ (sr_pc[t[1]] = "join" /\ sr_cur[t[1]] = t[2])
       IN  /\ th_pc' = [th_pc EXCEPT ![t] = IF joined THEN "done" ELSE "none"]
           /\ th_ret' = [th_ret EXCEPT ![t] = IF ~joined THEN "none"
                                              ELSE IF how = "ok" THEN "ok" ELSE "fail"]
    /\ th_save_fd' = [th_save_fd EXCEPT ![t] = "none"]
    /\ th_suppressed' = [th_suppressed EXCEPT ![t] = FALSE]
    /\ last_exit' = [how |-> how, suppressed |-> th_suppressed[t]]
    /\ UNCHANGED <<sr_pc, sr_cur>>
    /\ UNCHANGED notSuppress

\* The open has ended: with a stream, RTSPBufferedCapture.start() starts
\* _read_loop; without one, the constructor raises and run() tries again.
SrOpened(c) ==
    /\ sr_pc[c] = "opening"
    /\ th_pc[<<c, 0>>] = "done"
    /\ sr_pc' = [sr_pc EXCEPT ![c] = IF th_ret[<<c, 0>>] = "ok" THEN "loop" ELSE "closed"]
    /\ th_pc' = [th_pc EXCEPT ![<<c, 0>>] = "none"]
    /\ th_ret' = [th_ret EXCEPT ![<<c, 0>>] = "none"]
    /\ UNCHANGED <<sup_lock, fd2, th_save_fd, th_suppressed, sr_cur, last_exit>>
    /\ UNCHANGED notSuppress

\* _safe_base_read: a new sub-thread is started on base_capture.read(),
\* which enters SuppressFFmpegOutput, and _read_loop joins it.
SrSpawn(c) ==
    /\ sr_pc[c] = "loop"
    /\ \E i \in 1..MaxSubs : th_pc[<<c, i>>] = "none"
    /\ LET i == CHOOSE i \in 1..MaxSubs :
                    /\ th_pc[<<c, i>>] = "none"
                    /\ \A j \in 1..MaxSubs : th_pc[<<c, j>>] = "none" => i <= j
       IN  /\ th_pc' = [th_pc EXCEPT ![<<c, i>>] = "acquire"]
           /\ sr_cur' = [sr_cur EXCEPT ![c] = i]
    /\ sr_pc' = [sr_pc EXCEPT ![c] = "join"]
    /\ UNCHANGED <<sup_lock, fd2, th_save_fd, th_suppressed, th_ret, last_exit>>
    /\ UNCHANGED notSuppress

\* t.join returns because the sub-thread ended: _read_loop goes on with its
\* result.
SrJoined(c) ==
    /\ sr_pc[c] = "join"
    /\ th_pc[<<c, sr_cur[c]>>] = "done"
    /\ th_pc' = [th_pc EXCEPT ![<<c, sr_cur[c]>>] = "none"]
    /\ th_ret' = [th_ret EXCEPT ![<<c, sr_cur[c]>>] = "none"]
    /\ sr_pc' = [sr_pc EXCEPT ![c] = "loop"]
    /\ sr_cur' = [sr_cur EXCEPT ![c] = 0]
    /\ UNCHANGED <<sup_lock, fd2, th_save_fd, th_suppressed, last_exit>>
    /\ UNCHANGED notSuppress

\* t.join(timeout=6.0) returns with the sub-thread alive: timed_out, and
\* _read_loop continues after its sleep of 10 ms.
SrTimeout(c) ==
    /\ sr_pc[c] = "join"
    /\ th_pc[<<c, sr_cur[c]>>] \in {"acquire", "body"}
    /\ sr_pc' = [sr_pc EXCEPT ![c] = "loop"]
    /\ sr_cur' = [sr_cur EXCEPT ![c] = 0]
    /\ UNCHANGED <<sup_lock, fd2, th_pc, th_save_fd, th_suppressed, th_ret, last_exit>>
    /\ UNCHANGED notSuppress

NextSuppress ==
    \/ \E c \in Cams : SrOpenBegin(c)
    \/ \E t \in SupThreads, outcome \in SetupOutcomes : SupEnter(t, outcome)
    \/ \E t \in SupThreads, how \in BodyOutcomes : SupLeave(t, how)
    \/ \E c \in Cams : SrOpened(c)
    \/ \E c \in Cams : SrSpawn(c)
    \/ \E c \in Cams : SrJoined(c)
    \/ \E c \in Cams : SrTimeout(c)

SpecSuppress == InitSuppress /\ [][NextSuppress]_vars

\* The sub-threads of capture c that are in base_capture.read(): waiting
\* for the lock of the block, or in the native read.
InBaseRead(c) == {t \in SubsOf(c) : th_pc[t] \in {"acquire", "body"}}

\* The threads inside the block, between its setup and its finally clause.
InBlock == {t \in SupThreads : th_pc[t] = "body"}

\* C31: for one capture, at most one invocation of base_capture.read is in
\* progress at any time: _read_loop never starts a new one while an earlier
\* one on the same handle has not returned, whether or not a read overran
\* the watchdog timeout.
C31_OneReadInProgress ==
    [][\A c \in Cams : \A t \in SubsOf(c) :
          (th_pc[t] = "none" /\ th_pc'[t] = "acquire") => InBaseRead(c) = {}]_vars

\* C35: file descriptor 2 is manipulated by one thread at a time: at most
\* one thread is inside the block, it holds the lock, and fd 2 is redirected
\* only while a thread that redirected it is inside; every exit from the
\* block, by return or by exception, after a setup that succeeded or failed,
\* leaves fd 2 restored and the lock released.
C35_Fd2Serialized ==
    /\ [](/\ Cardinality(InBlock) <= 1
          /\ \A t \in SupThreads : th_pc[t] = "body" <=> sup_lock = t
          /\ fd2 = "null" <=> \E t \in InBlock : th_suppressed[t])
    /\ [][\A t \in SupThreads :
            (th_pc[t] = "body" /\ th_pc'[t] # "body") =>
                (fd2' = "stderr" /\ sup_lock' = NoThread)]_vars

\* Witness of C35: a block entered with fd 2 redirected was left by an
\* exception, fd 2 is the stderr again and the lock is free, while a thread
\* of the other capture waits for the lock.
C35_Witness ==
    /\ last_exit = [how |-> "raise", suppressed |-> TRUE]
    /\ fd2 = "stderr" /\ sup_lock = NoThread
    /\ \E t \in SupThreads : th_pc[t] = "acquire"

\* C36: the lock of the block is not held for the duration of a native read
\* or open, so that no thread waits for the lock while a thread of another
\* capture is in its native call.
C36_NativeCallsIndependent ==
    /\ \A t \in SupThreads : th_pc[t] = "body" => sup_lock # t
    /\ \A t \in SupThreads : th_pc[t] = "acquire" =>
          ~\E u \in SupThreads : u[1] # t[1] /\ th_pc[u] = "body"

\* C37: at most one read sub-thread of a capture is alive at any time.
C37_OneSubThread ==
    \A c \in Cams : Cardinality(InBaseRead(c)) <= 1


-----------------------------------------------------------------------------
(***************************************************************************)
(* counter.py: VehicleCounter.adicionar (79-132) over the connection of    *)
(* CounterDatabase, frame after frame, with the time since                 *)
(* _last_save_time counted in ticks of 0.2 s.  The pipeline thread runs    *)
(* and is not stopped.  Any statement of save_counters, the commit of      *)
(* flush and the INSERT of add_to_history may raise; each of the three     *)
(* methods catches the exception and logs it.                              *)
(***************************************************************************)

\* Bound of SpecPersist: the vehicles counted.
MaxPersistEvents == 2

\* The time between two frames, half of the save interval.
PersistStep == SAVE_INTERVAL \div 2

\* add_to_history whose INSERT may raise: the camera row, created and
\* committed by _get_camera_id before the INSERT, stays.
tx_try_add_to_history(s, categoria_en, categoria, sentido, rtsp_url, raises) ==
    IF raises
    THEN (IF rtsp_url = "" THEN s ELSE tx_get_camera_id(s, rtsp_url))
    ELSE tx_add_to_history(s, categoria_en, categoria, sentido, rtsp_url)

notPersist == <<firstVars, zoneVars, qcfgVars, roiVars, reconnectVars, migrateVars,
                bufferVars, readVars, lockVars, dirVars, debounceVars, suppressVars,
                shareVars, st_thread, st_stop, snapshot_committed, cleanup_failed,
                pending_at_stop>>

\* CounterDatabase() on a new file and VehicleCounter(database, rtsp_url):
\* _last_save_time is the time of construction.
InitPersist ==
    /\ StoreIdle
    /\ PersistIdle
    /\ LineIdle
    /\ CounterIdle
    /\ PipelineIdle
    /\ QueueIdle
    /\ CaptureIdle
    /\ ZoneIdle
    /\ QueueConfigIdle
    /\ RoiIdle
    /\ ReconnectIdle
    /\ MigrateIdle
    /\ BufferIdle
    /\ ReadIdle
    /\ LocksIdle
    /\ DirectionIdle
    /\ DebounceIdle
    /\ SuppressIdle
    /\ ShareIdle

\* A frame of process_video in which no vehicle is counted: time passes,
\* neither the counter nor the store is called, and fps_counter += 1.
PsFrame ==
    /\ ps_since_save' = IF ps_since_save + PersistStep > SAVE_INTERVAL
                        THEN SAVE_INTERVAL ELSE ps_since_save + PersistStep
    /\ ps_fps_counter' = (ps_fps_counter + 1) % 2
    /\ UNCHANGED <<tx_committed, tx_working, in_transaction, mem_contadores,
                   ps_emitted, ps_save, ps_recovered, ps_lost>>
    /\ UNCHANGED notPersist

\* A frame in which a vehicle is counted: adicionar(categoria_en, sentido)
\* increments, appends to historico, calls save_to_database when the save
\* interval has passed and sets _last_save_time, then calls add_to_history.
PsAdicionar(categoria_en, sentido, fail_at, flush_raises, insert_raises) ==
    /\ Len(ps_emitted) < MaxPersistEvents
    /\ LET due == ps_since_save >= SAVE_INTERVAL
           categoria == categoria_map(categoria_en)
           contadores == increment(mem_contadores, categoria, sentido)
           s0 == StoreState
           s1 == IF due
                 THEN tx_save_to_database(s0, contadores, StoreUrl, fail_at, flush_raises)
                 ELSE s0
           s2 == tx_try_add_to_history(s1, categoria_en, categoria, sentido, StoreUrl,
                                       insert_raises)
       IN  /\ (~due => (fail_at = 0 /\ ~flush_raises))
           /\ mem_contadores' = contadores
           /\ ps_emitted' = Append(ps_emitted, [categoria_en |-> categoria_en,
                                                categoria |-> categoria,
                                                sentido |-> sentido])
           /\ tx_committed' = s2.committed
           /\ tx_working' = s2.working
           /\ in_transaction' = s2.in_transaction
           /\ ps_since_save' = IF due THEN 0 ELSE ps_since_save
           /\ ps_save' = IF ~due THEN ps_save
                         ELSE IF fail_at # 0 THEN "failed" ELSE "ok"
           /\ ps_recovered' = (ps_recovered \/ (due /\ fail_at = 0 /\ ps_save = "failed"))
           /\ ps_lost' = ps_lost + (IF insert_raises THEN 1 ELSE 0)
           /\ ps_fps_counter' = (ps_fps_counter + 1) % 2
    /\ UNCHANGED notPersist

NextPersist ==
    \/ PsFrame
    \/ \E categoria_en \in {"car", "moto"}, sentido \in Dirs, fail_at \in FailPoints,
          flush_raises \in BOOLEAN, insert_raises \in BOOLEAN :
            PsAdicionar(categoria_en, sentido, fail_at, flush_raises, insert_raises)

SpecPersist == InitPersist /\ [][NextPersist]_vars

\* The pipeline thread keeps processing frames; nothing makes a further
\* vehicle cross the line.
SpecPersistLive == SpecPersist /\ WF_vars(PsFrame)

\* The counter rows of the camera that hold exactly these counters.
CounterRows(contadores) ==
    {[rtsp_url |-> StoreUrl, categoria |-> c, sentido |-> d,
      valor |-> contadores[c][d]] : c \in Cats, d \in Dirs}

\* This step is a call of adicionar that reaches save_to_database.
SavingCall ==
    /\ Len(ps_emitted') = Len(ps_emitted) + 1
    /\ ps_since_save >= SAVE_INTERVAL

\* C32: when save_counters fails, the call of adicionar still returns with
\* the in-memory counters holding the vehicle just counted and nothing else
\* changed in them, and add_to_history is still called; and when a
\* save_counters succeeds, after failed ones or not, the committed counter
\* rows of the camera are the in-memory counters.
C32_SaveErrorConverges ==
    [][SavingCall =>
        LET e == ps_emitted'[Len(ps_emitted')]
        IN  /\ ps_save' = "failed" =>
                 /\ mem_contadores'["total"][e.sentido] =
                        mem_contadores["total"][e.sentido] + 1
                 /\ mem_contadores'[e.categoria][e.sentido] =
                        mem_contadores[e.categoria][e.sentido] + 1
                 /\ \A c \in AllCats, d \in Dirs :
                        (d # e.sentido \/ c \notin {"total", e.categoria}) =>
                            mem_contadores'[c][d] = mem_contadores[c][d]
                 /\ Len(tx_working'.historico_v2) + ps_lost' = Len(ps_emitted')
            /\ ps_save' = "ok" =>
                 RowsOf(tx_committed') = CounterRows(mem_contadores')]_vars

\* Witness of C32: a save_counters succeeded after one that failed, and the
\* committed counter rows are the in-memory counters.
C32_Witness ==
    /\ ps_recovered /\ ps_save = "ok"
    /\ RowsOf(tx_committed) = CounterRows(mem_contadores)
    /\ mem_contadores["total"]["ida"] + mem_contadores["total"]["volta"] = 2

\* The row of historico_v2 that add_to_history inserts for an event.
HistoryRowOf(e) ==
    [camera |-> StoreUrl, categoria_id |-> CATEGORIA_MAP_ID(e.categoria),
     sentido_id |-> SENTIDO_MAP_ID(e.sentido)]

\* C33 as stated: the history rows are the emitted events, one row per
\* event, in the order of emission.
C33_OneRowPerEvent ==
    /\ Len(tx_working.historico_v2) = Len(ps_emitted)
    /\ \A i \in 1..Len(ps_emitted) :
          tx_working.historico_v2[i] = HistoryRowOf(ps_emitted[i])

\* C33 amended: rows are only ever inserted after the rows already stored,
\* by the call of adicionar that emits the event and for that event, so that
\* the rows are in the order of emission; an event has one row, or none when
\* its INSERT raised.
C33_RowsInEmissionOrder ==
    /\ [](Len(tx_working.historico_v2) + ps_lost = Len(ps_emitted))
    /\ [][\/ tx_working'.historico_v2 = tx_working.historico_v2
          \/ /\ Len(ps_emitted') = Len(ps_emitted) + 1
             /\ tx_working'.historico_v2 =
                  Append(tx_working.historico_v2,
                         HistoryRowOf(ps_emitted'[Len(ps_emitted')]))]_vars

\* Witness of C33: two different events were emitted and the store holds
\* their two rows, the row of the first before the row of the second.
C33_Witness ==
    /\ Len(ps_emitted) = 2 /\ ps_lost = 0
    /\ ps_emitted[1] # ps_emitted[2]
    /\ tx_working.historico_v2 = <<HistoryRowOf(ps_emitted[1]), HistoryRowOf(ps_emitted[2])>>

\* C38: every history row that add_to_history inserted is eventually
\* committed while the pipeline keeps processing frames, whether or not a
\* further vehicle is counted.
C38_EventuallyCommitted ==
    \A n \in 1..MaxPersistEvents :
        (Len(tx_working.historico_v2) >= n) ~> (Len(tx_committed.historico_v2) >= n)


-----------------------------------------------------------------------------
(***************************************************************************)
(* counter.py, detector.py and main_window.py: the dict                    *)
(* counter.contadores and the flag track_counted[1]['ida'] between the     *)
(* pipeline thread, which counts track 1 as a car going 'ida' and emits    *)
(* update_counters at the end of each frame, and the UI thread, whose      *)
(* _reset_counter_only runs whenever the user confirms a reset.  The two   *)
(* threads interleave between statements.  A dict is known by its          *)
(* identity: reset() binds counter.contadores to a new dict, and           *)
(* update_counters.emit passes the dict itself (pyqtSignal(dict) carries   *)
(* the Python object).  The calls of the store in adicionar are left out   *)
(* (SpecStore and SpecPersist have them).                                  *)
(***************************************************************************)

\* Bounds of SpecShare: the dicts bound to counter.contadores over the run,
\* and the vehicles counted in one of them.
MaxDicts == 3
MaxShareCount == 2

DictIds == 1..MaxDicts

notShare == <<firstVars, secondVars, readVars, lockVars, dirVars, debounceVars,
              suppressVars, persistVars>>

\* VehicleCounter.__init__ without saved counters and VideoThread.__init__:
\* contadores is the dict of reset(), the track maps are empty, and nothing
\* was emitted.
InitShare ==
    /\ sh_heap = [i \in DictIds |-> ZeroCounters]
    /\ sh_ref = 1
    /\ sh_ui_ref = 0
    /\ sh_emitted = <<>>
    /\ sh_pc = "frame"
    /\ sh_counted = "absent"
    /\ sh_writers = {}
    /\ LineIdle
    /\ CounterIdle
    /\ PipelineIdle
    /\ QueueIdle
    /\ CaptureIdle
    /\ SecondIdle
    /\ ReadIdle
    /\ LocksIdle
    /\ DirectionIdle
    /\ DebounceIdle
    /\ SuppressIdle
    /\ PersistIdle

\* The pipeline thread, in a frame where track 1 crosses as 'ida': the key
\* of track_counted is created when missing, the flag is found False, and
\* adicionar executes self.contadores['total'][sentido] += 1.
ShIncTotal ==
    /\ sh_pc = "frame"
    /\ sh_counted # "yes"
    /\ sh_heap[sh_ref]["total"]["ida"] < MaxShareCount
    /\ sh_heap' = [sh_heap EXCEPT ![sh_ref]["total"]["ida"] = @ + 1]
    /\ sh_counted' = "no"
    /\ sh_pc' = "inc_cat"
    /\ sh_writers' = sh_writers \cup {"pl"}
    /\ UNCHANGED <<sh_ref, sh_ui_ref, sh_emitted>>
    /\ UNCHANGED notShare

\* The pipeline thread: self.contadores[categoria][sentido] += 1, on the
\* dict contadores is bound to by now, and after adicionar
\* self.track_counted[track_id]['ida'] = True, which raises KeyError (caught
\* at the end of the loop body) when the key is gone.
ShIncCat ==
    /\ sh_pc = "inc_cat"
    /\ sh_heap' = [sh_heap EXCEPT ![sh_ref]["Carros"]["ida"] = @ + 1]
    /\ sh_counted' = IF sh_counted = "absent" THEN "absent" ELSE "yes"
    /\ sh_pc' = "emit"
    /\ sh_writers' = sh_writers \cup {"pl"}
    /\ UNCHANGED <<sh_ref, sh_ui_ref, sh_emitted>>
    /\ UNCHANGED notShare

\* The pipeline thread at the end of a frame, with or without a count in
\* it: the cleanup pops the flags of a track not seen for track_ttl, and
\* update_counters.emit(self.counter.contadores).
ShEmit(popped) ==
    /\ sh_pc \in {"frame", "emit"}
    /\ popped => sh_pc = "frame"
    /\ sh_counted' = IF popped THEN "absent" ELSE sh_counted
    /\ sh_ui_ref' = sh_ref
    /\ sh_emitted' = sh_heap[sh_ref]
    /\ sh_pc' = "frame"
    /\ sh_writers' = IF popped THEN sh_writers \cup {"pl"} ELSE sh_writers
    /\ UNCHANGED <<sh_heap, sh_ref>>
    /\ UNCHANGED notShare

\* The UI thread, MainWindow._reset_counter_only: counter.reset() binds
\* contadores to a new dict of zeros, and the track maps are cleared.
ShUiReset ==
    /\ sh_ref < MaxDicts
    /\ sh_ref' = sh_ref + 1
    /\ sh_heap' = [sh_heap EXCEPT ![sh_ref + 1] = ZeroCounters]
    /\ sh_counted' = "absent"
    /\ sh_writers' = sh_writers \cup {"ui"}
    /\ UNCHANGED <<sh_ui_ref, sh_emitted, sh_pc>>
    /\ UNCHANGED notShare

NextShare ==
    \/ ShIncTotal
    \/ ShIncCat
    \/ \E popped \in BOOLEAN : ShEmit(popped)
    \/ ShUiReset

SpecShare == InitShare /\ [][NextShare]_vars

\* C34: the in-memory counters and the per-track count state are written
\* by the pipeline thread only, and the counters handed to the UI keep the
\* content they were emitted with.
C34_PipelineOwnsCounters ==
    /\ sh_writers \subseteq {"pl"}
    /\ sh_ui_ref # 0 => sh_heap[sh_ui_ref] = sh_emitted

\* Every dict emitted to the UI had total = sum of the categories when it
\* was emitted.
ShTotalsConsistent == sh_ui_ref # 0 => TotalsConsistent(sh_emitted)

\* The UI thread wrote nothing, and yet the dict handed to the UI differs
\* from what it held when emitted.
ShAliasOnly ==
    ~(sh_writers \subseteq {"pl"} /\ sh_ui_ref # 0 /\ sh_heap[sh_ui_ref] # sh_emitted)

====
